---------------------------- MODULE Spec2Model ----------------------------
(***************************************************************************)
(* A model of the markdown-to-template mapping engine of acadwrite         *)
(* (src/manus/markdown_to_template_solution/src): ContentMapper,           *)
(* StyleMapper, AIHelper and the TemplateMapper.process orchestrator.      *)
(*                                                                         *)
(* Python objects are modelled with their identity: every list of element  *)
(* records and every element record (a dict) lives in a heap, so that a    *)
(* shallow copy (dict.copy, list.copy) shares what the Python copy shares. *)
(*   lists : list id  -> sequence of object ids                            *)
(*   objs  : object id -> element record (a function from keys to values) *)
(* A top-level content dict is a record whose "elements" field is a list   *)
(* id.  Strings that the code only compares are TLA+ strings; LaTeX        *)
(* command strings, which the code strips and splits, are sequences of     *)
(* tokens (a token is one of the characters \ { } or a maximal word).     *)
(***************************************************************************)
EXTENDS Integers, Sequences, FiniteSets, TLC

\* Longest source document (number of elements) that is explored.
MaxElems == 2

\* Longest issue list handed directly to adjust_structure by a caller.
MaxIssues == 2

\* The number of calls made one after the other on one object.
MaxCalls == 2

\* The number of MarkdownParser objects.
MaxParsers == 2

\* Longest markdown document of an invocation that runs beside another.
MaxConcurrentElems == 1

\* The most lines of a markdown text.
MaxLines == 4

(***************************************************************************)
(* Python values                                                           *)
(***************************************************************************)

\* Python's None where a content dict is expected.
None == [type |-> "NoneType"]

\* Python's None where a style name (str) is expected.
NoneStr == "<None>"

\* Python's None where a LaTeX command string is expected.
NoneCmd == <<"<None>">>

\* dict.get(k, dflt)
Get(d, k, dflt) == IF k \in DOMAIN d THEN d[k] ELSE dflt

\* d[k] = v on a dict
Put(d, k, v) == [x \in (DOMAIN d) \cup {k} |-> IF x = k THEN v ELSE d[x]]

\* Python truthiness of an Optional[str] (style name)
FalsyStr(s) == s = NoneStr \/ s = ""

\* Python truthiness of an Optional[str] (LaTeX command)
FalsyCmd(c) == c = NoneCmd \/ c = <<>>

\* f"Heading {level}"
HeadingName(level) == "Heading " \o ToString(level)

\* f'\\{command_name}'
Backslash(name) == <<"\\">> \o name

(***************************************************************************)
(* Inputs: source documents                                                *)
(***************************************************************************)

Heading(l, t) == [type |-> "heading", level |-> l, text |-> t]

\* The element records MarkdownStructureExtractor produces (the keys the
\* mappers read), plus a list item that carries its list kind.
SourceElements ==
    { Heading(1, "A"), Heading(1, "B"), Heading(5, "A"), Heading(6, "A"),
      [type |-> "paragraph", text |-> "A"],
      [type |-> "list_item", text |-> "A"],
      [type |-> "list", list_type |-> "ordered"],
      [type |-> "code_block", text |-> "A"],
      [type |-> "image", src |-> "A", alt |-> "B"],
      [type |-> "table_row"] }

SeqsUpTo(S, n) == UNION { [1..k -> S] : k \in 0..n }

SourceDocs == SeqsUpTo(SourceElements, MaxElems)

(***************************************************************************)
(* Inputs: template structures                                             *)
(***************************************************************************)

\* A docx style definition as DocxTemplateParser._extract_styles builds it.
DocxStyleInfo(name) == [name |-> name, font |-> "font", paragraph |-> "pf"]

DocxTable(names) == [n \in names |-> DocxStyleInfo(n)]

\* The style names _extract_styles always provides.
DocxBasicStyles == {"Normal"} \cup { HeadingName(i) : i \in 1..6 }

DocxStyleTables ==
    { DocxTable({}),
      DocxTable({"Heading 1", "Normal"}),
      DocxTable(DocxBasicStyles \cup {"Body Text", "Heading 1 Alt"}) }

TplHeading(l, s) == [type |-> "heading", level |-> l, style |-> s, text |-> "T"]

TplParagraph(s) == [type |-> "paragraph", style |-> s, text |-> "T"]

DocxStructures ==
    { <<>>,
      <<TplHeading(1, "Heading 1"), TplParagraph("Body Text"), TplParagraph("Normal")>>,
      <<TplHeading(1, "Heading 1"), TplHeading(6, "Heading 6"), TplHeading(1, "Heading 1 Alt")>> }

DocxTemplates ==
    { [type |-> "docx", path |-> <<"t", ".", "d", "o", "c", "x">>, styles |-> st, structure |-> s,
       page_settings |-> "page"] : st \in DocxStyleTables, s \in DocxStructures }

TexHeadingCommands == {<<"section">>, <<"subsection">>, <<"subsubsection">>,
                       <<"paragraph">>, <<"subparagraph">>}

TexEnvironments == {"itemize", "enumerate", "description", "quote", "verbatim", "tabular"}

TexHeadingStyle(def) == [type |-> "heading", definition |-> def]

TexEnvStyle(b, e) == [type |-> "environment", begin_def |-> b, end_def |-> e]

BeginEnv(env) == <<"\\", "begin", "{", env, "}">>

EndEnv(env) == <<"\\", "end", "{", env, "}">>

\* What TexTemplateParser._extract_styles returns for a template without any
\* \renewcommand or \renewenvironment.
TexParserDefaults ==
    [k \in TexHeadingCommands \cup { <<e>> : e \in TexEnvironments } |->
        IF k \in TexHeadingCommands
        THEN TexHeadingStyle(Backslash(k))
        ELSE TexEnvStyle(BeginEnv(k[1]), EndEnv(k[1]))]

Override(table, k, v) == [table EXCEPT ![k] = v]

TexStyleTables ==
    { <<>>,
      TexParserDefaults,
      \* \renewcommand of section and subparagraph, \renewenvironment of itemize
      Override(Override(Override(TexParserDefaults,
          <<"section">>, TexHeadingStyle(<<"\\", "Large", "\\", "bfseries">>)),
          <<"subparagraph">>, TexHeadingStyle(<<"\\", "itshape">>)),
          <<"itemize">>, TexEnvStyle(<<"\\", "begin", "{", "compactitem", "}">>,
                                     <<"\\", "end", "{", "compactitem", "}">>)),
      \* section redefined as \subsection, subsection as \subsubsection,
      \* subsubsection as \Large
      Override(Override(Override(TexParserDefaults,
          <<"section">>, TexHeadingStyle(<<"\\", "subsection">>)),
          <<"subsection">>, TexHeadingStyle(<<"\\", "subsubsection">>)),
          <<"subsubsection">>, TexHeadingStyle(<<"\\", "Large">>)),
      \* \renewcommand{\section}{} : an empty definition
      Override(TexParserDefaults, <<"section">>, TexHeadingStyle(<<>>)) }

TexTemplates ==
    { [type |-> "tex", path |-> <<"t", ".", "t", "e", "x">>, styles |-> st, structure |-> <<>>,
       document_class |-> "article", packages |-> "pkgs"] : st \in TexStyleTables }

\* A template structure whose type no mapper branch knows.
OtherTemplates ==
    { [type |-> "odt", path |-> <<"t", ".", "o", "d", "t">>, styles |-> <<>>, structure |-> <<>>] }

Templates == DocxTemplates \cup TexTemplates \cup OtherTemplates

(***************************************************************************)
(* ContentMapper                                                           *)
(***************************************************************************)

RECURSIVE ExtractHeadingStyles(_)
\* ContentMapper._extract_heading_styles: level -> style name, a later
\* template heading of the same level overwriting an earlier one.
ExtractHeadingStyles(template_elements) ==
    IF template_elements = <<>> THEN <<>>
    ELSE LET n == Len(template_elements)
             element == template_elements[n]
             before == ExtractHeadingStyles(SubSeq(template_elements, 1, n - 1))
         IN IF Get(element, "type", "") = "heading"
            THEN LET level == Get(element, "level", 1)
                 IN Put(before, level, Get(element, "style", HeadingName(level)))
            ELSE before

RECURSIVE ExtractDefaultParagraphStyleLast(_)
\* A scan that keeps the style of the last paragraph element it meets.
ExtractDefaultParagraphStyleLast(template_elements) ==
    IF template_elements = <<>> THEN "Normal"
    ELSE LET n == Len(template_elements)
         IN IF Get(template_elements[n], "type", "") = "paragraph"
            THEN Get(template_elements[n], "style", "Normal")
            ELSE ExtractDefaultParagraphStyleLast(SubSeq(template_elements, 1, n - 1))

\* A default paragraph style that ignores the template's paragraphs.
ExtractDefaultParagraphStyleFixed(template_elements) == "Normal"

RECURSIVE ExtractDefaultParagraphStyle(_)
\* ContentMapper._extract_default_paragraph_style
ExtractDefaultParagraphStyle(template_elements) ==
    IF template_elements = <<>> THEN "Normal"
    ELSE IF Get(Head(template_elements), "type", "") = "paragraph"
         THEN Get(Head(template_elements), "style", "Normal")
         ELSE ExtractDefaultParagraphStyle(Tail(template_elements))

\* A lookup that substitutes the default name itself instead of reporting
\* the level as not found.
GetHeadingStyleForLevelDefaulting(level, heading_styles) ==
    Get(heading_styles, level, HeadingName(level))

\* ContentMapper._get_heading_style_for_level
GetHeadingStyleForLevel(level, heading_styles) == Get(heading_styles, level, NoneStr)

\* level_to_command of ContentMapper._get_tex_heading_command
LevelToCommandName ==
    [l \in 1..5 |-> CASE l = 1 -> <<"section">>
                      [] l = 2 -> <<"subsection">>
                      [] l = 3 -> <<"subsubsection">>
                      [] l = 4 -> <<"paragraph">>
                      [] l = 5 -> <<"subparagraph">>]

\* ContentMapper._get_tex_heading_command
GetTexHeadingCommand(level, template_styles) ==
    IF level \notin DOMAIN LevelToCommandName THEN NoneCmd
    ELSE LET command_name == LevelToCommandName[level]
         IN IF command_name \in DOMAIN template_styles
            THEN Get(template_styles[command_name], "definition", Backslash(command_name))
            ELSE Backslash(command_name)

\* level_to_command of _get_default_tex_heading_command (ContentMapper,
\* StyleMapper) and of AIHelper._simulate_ai_adjustment
DefaultTexHeadingCommand(level) ==
    CASE level = 1 -> <<"\\", "section">>
      [] level = 2 -> <<"\\", "subsection">>
      [] level = 3 -> <<"\\", "subsubsection">>
      [] level = 4 -> <<"\\", "paragraph">>
      [] level = 5 -> <<"\\", "subparagraph">>
      [] level = 6 -> <<"\\", "subparagraph">>
      [] OTHER -> <<"\\", "section">>

Issue(kind, level, text) == [type |-> kind, level |-> level, text |-> text]

\* One iteration of the loop of ContentMapper._map_to_docx: the mapped
\* elements and the issues the source element contributes.
MapDocxElement(element, heading_styles, paragraph_style) ==
    LET element_type == Get(element, "type", "")
        text == Get(element, "text", "")
    IN CASE element_type = "heading" ->
              LET level == Get(element, "level", 1)
                  found == GetHeadingStyleForLevel(level, heading_styles)
                  missing == FalsyStr(found)
                  style_name == IF missing THEN HeadingName(level) ELSE found
              IN [elements |-> << [type |-> "heading", level |-> level,
                                   text |-> text, style |-> style_name] >>,
                  issues |-> IF missing
                             THEN << Issue("missing_heading_style", level, text) >>
                             ELSE <<>>]
         [] element_type = "paragraph" ->
              [elements |-> << [type |-> "paragraph", text |-> text,
                                style |-> paragraph_style] >>,
               issues |-> <<>>]
         [] element_type \in {"list", "list_item"} ->
              [elements |-> << [type |-> "list_item", text |-> text,
                                list_type |-> Get(element, "list_type", "unordered"),
                                style |-> "List Paragraph"] >>,
               issues |-> <<>>]
         [] element_type = "code_block" ->
              [elements |-> << [type |-> "code_block", text |-> text, style |-> "Code"] >>,
               issues |-> <<>>]
         [] element_type = "block_quote" ->
              [elements |-> << [type |-> "block_quote", text |-> text, style |-> "Quote"] >>,
               issues |-> <<>>]
         [] element_type = "table" ->
              [elements |-> << [type |-> "table", rows |-> Get(element, "rows", <<>>),
                                style |-> "Table Normal"] >>,
               issues |-> <<>>]
         [] element_type = "image" ->
              [elements |-> << [type |-> "image", src |-> Get(element, "src", ""),
                                alt |-> Get(element, "alt", ""),
                                caption_style |-> "Caption"] >>,
               issues |-> <<>>]
         [] OTHER -> [elements |-> <<>>, issues |-> <<>>]

\* One iteration of the loop of ContentMapper._map_to_tex.
MapTexElement(element, template_styles) ==
    LET element_type == Get(element, "type", "")
        text == Get(element, "text", "")
    IN CASE element_type = "heading" ->
              LET level == Get(element, "level", 1)
                  found == GetTexHeadingCommand(level, template_styles)
                  missing == FalsyCmd(found)
                  command == IF missing THEN DefaultTexHeadingCommand(level) ELSE found
              IN [elements |-> << [type |-> "heading", level |-> level,
                                   text |-> text, command |-> command] >>,
                  issues |-> IF missing
                             THEN << Issue("missing_heading_command", level, text) >>
                             ELSE <<>>]
         [] element_type = "paragraph" ->
              [elements |-> << [type |-> "paragraph", text |-> text] >>, issues |-> <<>>]
         [] element_type \in {"list", "list_item"} ->
              [elements |-> << [type |-> "environment",
                                env_type |-> IF Get(element, "list_type", "unordered") = "unordered"
                                             THEN "itemize" ELSE "enumerate",
                                items |-> <<text>>] >>,
               issues |-> <<>>]
         [] element_type = "code_block" ->
              [elements |-> << [type |-> "environment", env_type |-> "verbatim",
                                content |-> text] >>,
               issues |-> <<>>]
         [] element_type = "block_quote" ->
              [elements |-> << [type |-> "environment", env_type |-> "quote",
                                content |-> text] >>,
               issues |-> <<>>]
         [] element_type = "table" ->
              [elements |-> << [type |-> "environment", env_type |-> "tabular",
                                content |-> Get(element, "content", "")] >>,
               issues |-> <<>>]
         [] element_type = "image" ->
              [elements |-> << [type |-> "command", name |-> "includegraphics",
                                options |-> <<>>,
                                arguments |-> << Get(element, "src", "") >>,
                                caption |-> Get(element, "alt", "")] >>,
               issues |-> <<>>]
         [] OTHER -> [elements |-> <<>>, issues |-> <<>>]

RECURSIVE MapElements(_, _)
\* A loop that puts each mapped element before the ones mapped so far.
MapElementsPrepending(content_elements, template_structure) ==
    IF content_elements = <<>> THEN [elements |-> <<>>, issues |-> <<>>]
    ELSE LET n == Len(content_elements)
             before == MapElements(SubSeq(content_elements, 1, n - 1), template_structure)
             one == IF template_structure.type = "docx"
                    THEN MapDocxElement(content_elements[n],
                             ExtractHeadingStyles(Get(template_structure, "structure", <<>>)),
                             ExtractDefaultParagraphStyle(Get(template_structure, "structure", <<>>)))
                    ELSE MapTexElement(content_elements[n],
                                       Get(template_structure, "styles", <<>>))
         IN [elements |-> one.elements \o before.elements,
             issues |-> before.issues \o one.issues]

\* The for loop of _map_to_docx / _map_to_tex over content_elements, for a
\* template structure of type docx or tex.
MapElements(content_elements, template_structure) ==
    IF content_elements = <<>> THEN [elements |-> <<>>, issues |-> <<>>]
    ELSE LET n == Len(content_elements)
             before == MapElements(SubSeq(content_elements, 1, n - 1), template_structure)
             template_elements == Get(template_structure, "structure", <<>>)
             template_styles == Get(template_structure, "styles", <<>>)
             one == IF template_structure.type = "docx"
                    THEN MapDocxElement(content_elements[n],
                                        ExtractHeadingStyles(template_elements),
                                        ExtractDefaultParagraphStyle(template_elements))
                    ELSE MapTexElement(content_elements[n], template_styles)
         IN [elements |-> before.elements \o one.elements,
             issues |-> before.issues \o one.issues]

(***************************************************************************)
(* StyleMapper                                                             *)
(***************************************************************************)

\* StyleMapper._get_default_docx_style
GetDefaultDocxStyle(element_type) ==
    CASE element_type = "heading" -> "Heading 1"
      [] element_type = "paragraph" -> "Normal"
      [] element_type = "list_item" -> "List Paragraph"
      [] element_type = "code_block" -> "Code"
      [] element_type = "block_quote" -> "Quote"
      [] element_type = "table" -> "Table Normal"
      [] element_type = "image" -> "Normal"
      [] OTHER -> "Normal"

\* A fallback that keeps the element as it is when its style is not in the
\* template's table.
ApplyDocxStyleKeeping(element, template_styles) ==
    LET default_style_name == GetDefaultDocxStyle(Get(element, "type", ""))
        current_style_name == Get(element, "style", default_style_name)
    IN IF current_style_name \in DOMAIN template_styles
       THEN Put(Put(element, "style", current_style_name),
                "style_properties", template_styles[current_style_name])
       ELSE element

\* StyleMapper._apply_docx_style: the styled copy of one element record.
ApplyDocxStyle(element, template_styles) ==
    LET default_style_name == GetDefaultDocxStyle(Get(element, "type", ""))
        current_style_name == Get(element, "style", default_style_name)
    IN IF current_style_name \in DOMAIN template_styles
       THEN Put(Put(element, "style", current_style_name),
                "style_properties", template_styles[current_style_name])
       ELSE Put(element, "style", default_style_name)

RECURSIVE LStripBackslash(_)
\* str.lstrip('\\') on a tokenised command string
LStripBackslash(s) ==
    IF s # <<>> /\ Head(s) = "\\" THEN LStripBackslash(Tail(s)) ELSE s

RECURSIVE BeforeBrace(_)
\* str.split('{')[0] on a tokenised command string
BeforeBrace(s) ==
    IF s = <<>> \/ Head(s) = "{" THEN <<>> ELSE <<Head(s)>> \o BeforeBrace(Tail(s))

\* A tex resolution that looks at headings only.
ApplyTexStyleHeadingsOnly(element, template_styles) ==
    LET level == Get(element, "level", 1)
        command == Get(element, "command", DefaultTexHeadingCommand(level))
        command_name == BeforeBrace(LStripBackslash(command))
    IN IF Get(element, "type", "") = "heading" /\ command_name \in DOMAIN template_styles
       THEN Put(element, "command", Get(template_styles[command_name], "definition", command))
       ELSE element

\* StyleMapper._apply_tex_style: the styled copy of one element record.
ApplyTexStyle(element, template_styles) ==
    LET element_type == Get(element, "type", "")
    IN CASE element_type = "heading" ->
              LET level == Get(element, "level", 1)
                  command == Get(element, "command", DefaultTexHeadingCommand(level))
                  command_name == BeforeBrace(LStripBackslash(command))
              IN IF command_name \in DOMAIN template_styles
                 THEN Put(element, "command",
                          Get(template_styles[command_name], "definition", command))
                 ELSE element
         [] element_type = "environment" ->
              LET env_type == Get(element, "env_type", "")
              IN IF <<env_type>> \in DOMAIN template_styles
                 THEN Put(Put(element, "begin_def",
                              Get(template_styles[<<env_type>>], "begin_def", BeginEnv(env_type))),
                          "end_def",
                          Get(template_styles[<<env_type>>], "end_def", EndEnv(env_type)))
                 ELSE element
         [] OTHER -> element

\* The body of the loop of StyleMapper.apply_styles for one element, for a
\* StyleMapper built with template_format docx or tex.
ApplyStyle(template_format, element, template_styles) ==
    IF template_format = "docx" THEN ApplyDocxStyle(element, template_styles)
    ELSE ApplyTexStyle(element, template_styles)

\* A resolution that logs nothing.
StyleWarningSilent(template_format, element, template_styles) == <<>>

\* What one iteration of the loop of StyleMapper.apply_styles logs at the
\* level WARNING: _apply_docx_style when the element's style is not in the
\* template's table, apply_styles itself for a format it does not know.
StyleWarning(template_format, element, template_styles) ==
    LET default_style_name == GetDefaultDocxStyle(Get(element, "type", ""))
        current_style_name == Get(element, "style", default_style_name)
    IN IF template_format = "docx"
       THEN IF current_style_name \in DOMAIN template_styles THEN <<>>
            ELSE << [warning |-> "style not found", style |-> current_style_name,
                     default |-> default_style_name] >>
       ELSE IF template_format = "tex" THEN <<>>
       ELSE << [warning |-> "unknown format", format |-> template_format] >>

RECURSIVE StyleWarnings(_, _, _)
StyleWarnings(template_format, elements, template_styles) ==
    IF elements = <<>> THEN <<>>
    ELSE StyleWarning(template_format, Head(elements), template_styles)
            \o StyleWarnings(template_format, Tail(elements), template_styles)

(***************************************************************************)
(* AIHelper                                                                *)
(***************************************************************************)

\* A search that returns the last match instead of the first.
LastMatch(heap, ids, level, text) ==
    LET hits == { i \in 1..Len(ids) :
                    /\ Get(heap[ids[i]], "type", "") = "heading"
                    /\ "level" \in DOMAIN heap[ids[i]] /\ heap[ids[i]].level = level
                    /\ "text" \in DOMAIN heap[ids[i]] /\ heap[ids[i]].text = text }
    IN IF hits = {} THEN 0 ELSE CHOOSE i \in hits : \A j \in hits : j <= i

\* A search that compares the level but not the text.
FirstMatchAnyText(heap, ids, level, text) ==
    LET hits == { i \in 1..Len(ids) :
                    /\ Get(heap[ids[i]], "type", "") = "heading"
                    /\ "level" \in DOMAIN heap[ids[i]] /\ heap[ids[i]].level = level }
    IN IF hits = {} THEN 0 ELSE CHOOSE i \in hits : \A j \in hits : i <= j

\* The inner for loop of AIHelper._simulate_ai_adjustment: the first index
\* of ids whose element is a heading with this level and text, 0 if none.
FirstMatch(heap, ids, level, text) ==
    LET hits == { i \in 1..Len(ids) :
                    /\ Get(heap[ids[i]], "type", "") = "heading"
                    /\ "level" \in DOMAIN heap[ids[i]] /\ heap[ids[i]].level = level
                    /\ "text" \in DOMAIN heap[ids[i]] /\ heap[ids[i]].text = text }
    IN IF hits = {} THEN 0 ELSE CHOOSE i \in hits : \A j \in hits : i <= j

\* One iteration of the outer for loop of AIHelper._simulate_ai_adjustment:
\* the heap after the issue has been handled (elements[i][...] = ... writes
\* into the element record the list refers to).
AdjustOne(heap, ids, issue) ==
    LET issue_type == Get(issue, "type", "")
        level == Get(issue, "level", 1)
        text == Get(issue, "text", "")
        i == FirstMatch(heap, ids, level, text)
    IN IF i = 0 THEN heap
       ELSE IF issue_type = "missing_heading_style"
            THEN [heap EXCEPT ![ids[i]] = Put(@, "style", HeadingName(level))]
       ELSE IF issue_type = "missing_heading_command"
            THEN [heap EXCEPT ![ids[i]] = Put(@, "command", DefaultTexHeadingCommand(level))]
       ELSE heap

RECURSIVE SimulateAiAdjustment(_, _, _)
\* The outer for loop of AIHelper._simulate_ai_adjustment over issues.
SimulateAiAdjustment(heap, ids, issue_list) ==
    IF issue_list = <<>> THEN heap
    ELSE SimulateAiAdjustment(AdjustOne(heap, ids, Head(issue_list)), ids, Tail(issue_list))

(***************************************************************************)
(* TemplateMapper helpers (file names are sequences of characters)         *)
(***************************************************************************)

\* Python's None where a file name is expected.
NonePath == <<"<None>">>

UpperCase == <<"A", "B", "C", "D", "E", "F", "G", "H", "I", "J", "K", "L", "M",
               "N", "O", "P", "Q", "R", "S", "T", "U", "V", "W", "X", "Y", "Z">>

LowerCase == <<"a", "b", "c", "d", "e", "f", "g", "h", "i", "j", "k", "l", "m",
               "n", "o", "p", "q", "r", "s", "t", "u", "v", "w", "x", "y", "z">>

\* str.lower()
Lower(s) ==
    [i \in DOMAIN s |->
        IF \E k \in DOMAIN UpperCase : UpperCase[k] = s[i]
        THEN LowerCase[CHOOSE k \in DOMAIN UpperCase : UpperCase[k] = s[i]]
        ELSE s[i]]

\* str.rfind(c) + 1: the last index of c, 0 when c does not occur
LastIndexOf(s, c) ==
    LET at == { i \in DOMAIN s : s[i] = c }
    IN IF at = {} THEN 0 ELSE CHOOSE i \in at : \A j \in at : j <= i

\* os.path.splitext: <<root, ext>>; ext starts at the last dot of the file
\* name, unless the name has nothing but dots before it.
SplitExt(p) ==
    LET sep == LastIndexOf(p, "/")
        dot == LastIndexOf(p, ".")
    IN IF dot > sep /\ \E i \in (sep + 1)..(dot - 1) : p[i] # "."
       THEN <<SubSeq(p, 1, dot - 1), SubSeq(p, dot, Len(p))>>
       ELSE <<p, <<>>>>

RECURSIVE LStripDot(_)
\* str.lstrip('.')
LStripDot(s) == IF s # <<>> /\ Head(s) = "." THEN LStripDot(Tail(s)) ELSE s

\* The extension _get_file_extension returns without the final lower().
RawFileExtension(file_path) == LStripDot(SplitExt(file_path)[2])

\* TemplateMapper._get_file_extension
GetFileExtension(file_path) == Lower(LStripDot(SplitExt(file_path)[2]))

\* The characters of the format names of config.SUPPORTED_TEMPLATE_FORMATS.
FormatChars == [docx |-> <<"d", "o", "c", "x">>, tex |-> <<"t", "e", "x">>]

\* config.SUPPORTED_TEMPLATE_FORMATS
SupportedTemplateFormats == {"docx", "tex"}

\* template_format not in SUPPORTED_TEMPLATE_FORMATS
Unsupported(template_format) ==
    \A f \in SupportedTemplateFormats : FormatChars[f] # template_format

\* The supported format name a template_format string spells.
FormatNamed(template_format) ==
    CHOOSE f \in SupportedTemplateFormats : FormatChars[f] = template_format

\* TemplateMapper._generate_output_filename
GenerateOutputFilename(input_file, output_format) ==
    SplitExt(input_file)[1] \o <<"_", "o", "u", "t", "p", "u", "t", ".">> \o output_format

(***************************************************************************)
(* The output generators                                                   *)
(***************************************************************************)

\* No output file has been written.
NoFile == [kind |-> "none"]

\* The template file exists and the output path can be written.
IntactDisk == [template |-> TRUE, writable |-> TRUE]

RECURSIVE JoinOptions(_)
\* ','.join(options), as tokens.
JoinOptions(options) ==
    IF options = <<>> THEN <<>>
    ELSE IF Len(options) = 1 THEN <<options[1]>>
    ELSE <<options[1], ",">> \o JoinOptions(Tail(options))

RECURSIVE BracedArguments(_)
\* The loop that appends {arg} for each argument of a command.
BracedArguments(arguments) ==
    IF arguments = <<>> THEN <<>>
    ELSE <<"{", Head(arguments), "}">> \o BracedArguments(Tail(arguments))

\* A generator that writes every environment as begin, content, end.
TexElementLinesContentOnly(element) ==
    LET element_type == Get(element, "type", "")
    IN CASE element_type = "paragraph" -> << <<Get(element, "text", "")>>, <<>> >>
         [] element_type = "environment" ->
              << Get(element, "begin_def", BeginEnv(Get(element, "env_type", ""))),
                 <<Get(element, "content", "")>>,
                 Get(element, "end_def", EndEnv(Get(element, "env_type", ""))) >>
         [] OTHER -> <<>>

\* The lines TexOutputGenerator._generate_content appends for one element
\* (a line is a sequence of tokens, the empty line the empty sequence).
TexElementLines(element) ==
    LET element_type == Get(element, "type", "")
    IN CASE element_type = "heading" ->
              << Get(element, "command", DefaultTexHeadingCommand(Get(element, "level", 1)))
                   \o <<"{", Get(element, "text", ""), "}">> >>
         [] element_type = "paragraph" -> << <<Get(element, "text", "")>>, <<>> >>
         [] element_type = "environment" ->
              LET env_type == Get(element, "env_type", "")
                  items == Get(element, "items", <<>>)
              IN << Get(element, "begin_def", BeginEnv(env_type)) >>
                 \o (IF env_type \in {"itemize", "enumerate"} /\ "items" \in DOMAIN element
                     THEN [i \in DOMAIN items |-> <<"\\", "item", " ", items[i]>>]
                     ELSE << <<Get(element, "content", "")>> >>)
                 \o << Get(element, "end_def", EndEnv(env_type)) >>
         [] element_type = "command" ->
              LET arguments == Get(element, "arguments", <<>>)
                  caption == Get(element, "caption", "")
                  options == Get(element, "options", <<>>)
              IN << <<"\\", Get(element, "name", "")>>
                      \o (IF options # <<>> THEN <<"[">> \o JoinOptions(options) \o <<"]">>
                          ELSE <<>>)
                      \o BracedArguments(arguments) >>
                 \o (IF Get(element, "name", "") = "includegraphics"
                        /\ "caption" \in DOMAIN element /\ caption # ""
                     THEN << <<"\\", "caption", "{", caption, "}">> >>
                     ELSE <<>>)
         [] OTHER -> <<>>

RECURSIVE GenerateContent(_)
\* TexOutputGenerator._generate_content: the lines it joins with \n.
GenerateContent(elements) ==
    IF elements = <<>> THEN <<>>
    ELSE TexElementLines(Head(elements)) \o GenerateContent(Tail(elements))

\* What DocxOutputGenerator._add_element_to_doc adds to the document for
\* one element (the picture of an image is added only when its file exists,
\* which it does not here).
DocxElementParts(element) ==
    LET element_type == Get(element, "type", "")
        text == Get(element, "text", "")
    IN CASE element_type = "heading" ->
              << [text |-> text,
                  style |-> Get(element, "style", HeadingName(Get(element, "level", 1)))] >>
         [] element_type = "paragraph" ->
              << [text |-> text, style |-> Get(element, "style", "Normal")] >>
         [] element_type = "list_item" ->
              << [text |-> text, style |-> Get(element, "style", "List Paragraph")] >>
         [] element_type = "code_block" ->
              << [text |-> text, style |-> Get(element, "style", "Code")] >>
         [] element_type = "block_quote" ->
              << [text |-> text, style |-> Get(element, "style", "Quote")] >>
         [] element_type = "table" ->
              << [table |-> Get(element, "style", "Table Normal")] >>
         [] element_type = "image" -> << [text |-> "", alignment |-> "center"] >>
         [] OTHER -> <<>>

RECURSIVE DocxBody(_)
\* The loop of DocxOutputGenerator.generate over the elements.
DocxBody(elements) ==
    IF elements = <<>> THEN <<>>
    ELSE DocxElementParts(Head(elements)) \o DocxBody(Tail(elements))

\* The file a generate call that completes has written: both generators
\* take the template's part of the output (styles, preamble) from the
\* template file when it exists and go on without it when it does not.
GenerateOutput(format, elements, template_exists) ==
    [kind |-> "file", format |-> format, from_template |-> template_exists,
     content |-> IF format = "tex" THEN GenerateContent(elements) ELSE DocxBody(elements)]

(***************************************************************************)
(* MarkdownParser._extract_metadata (texts are sequences of characters)    *)
(***************************************************************************)

\* What \s of a regular expression matches.
IsSpace(c) == c \in {" ", "\n", "\t", "\r"}

AllSpace(s, a, b) == \A i \in a..b : IsSpace(s[i])

\* The word w is in s at position i.
StartsAt(s, i, w) == i + Len(w) - 1 <= Len(s) /\ SubSeq(s, i, i + Len(w) - 1) = w

Dashes == <<"-", "-", "-">>

\* ^---\s*\n : the positions of the \n that can end the opening.
Openings(text) ==
    IF StartsAt(text, 1, Dashes)
    THEN { p \in (Len(Dashes) + 1)..Len(text) :
             text[p] = "\n" /\ AllSpace(text, Len(Dashes) + 1, p - 1) }
    ELSE {}

\* \n---\s*\n matches at position q.
ClosesAt(text, q) ==
    /\ StartsAt(text, q, <<"\n">> \o Dashes)
    /\ \E r \in (q + Len(Dashes) + 1)..Len(text) :
          text[r] = "\n" /\ AllSpace(text, q + Len(Dashes) + 1, r - 1)

\* re.search(r'^---\s*\n(.*?)\n---\s*\n', text, re.DOTALL): the opening's
\* \s* is greedy, so the latest opening that leads to a match is taken;
\* the group is lazy, so it ends at the first closing after it.
YamlMatch(text) ==
    LET Closings(g) == { q \in g..Len(text) : ClosesAt(text, q) }
        ok == { p \in Openings(text) : Closings(p + 1) # {} }
    IN IF ok = {} THEN [matched |-> FALSE, group |-> <<>>]
       ELSE LET p == CHOOSE x \in ok : \A y \in ok : y <= x
                q == CHOOSE x \in Closings(p + 1) : \A y \in Closings(p + 1) : x <= y
            IN [matched |-> TRUE, group |-> SubSeq(text, p + 1, q - 1)]

\* The position of the first c in s, 0 when there is none.
FirstIndexOf(s, c) ==
    LET at == { i \in DOMAIN s : s[i] = c }
    IN IF at = {} THEN 0 ELSE CHOOSE i \in at : \A j \in at : i <= j

RECURSIVE Split(_, _)
\* str.split(c)
Split(s, c) ==
    LET i == FirstIndexOf(s, c)
    IN IF i = 0 THEN <<s>>
       ELSE <<SubSeq(s, 1, i - 1)>> \o Split(SubSeq(s, i + 1, Len(s)), c)

\* str.strip()
Strip(s) ==
    LET solid == { i \in DOMAIN s : ~IsSpace(s[i]) }
    IN IF solid = {} THEN <<>>
       ELSE SubSeq(s, CHOOSE i \in solid : \A j \in solid : i <= j,
                      CHOOSE i \in solid : \A j \in solid : j <= i)

RECURSIVE MetadataOfLines(_, _)
\* The loop of _extract_metadata over the lines of the block.
MetadataOfLines(lines, metadata) ==
    IF lines = <<>> THEN metadata
    ELSE LET line == Head(lines)
             i == FirstIndexOf(line, ":")
         IN MetadataOfLines(Tail(lines),
                IF i # 0
                THEN Put(metadata, Strip(SubSeq(line, 1, i - 1)),
                                   Strip(SubSeq(line, i + 1, Len(line))))
                ELSE metadata)

\* MarkdownParser._extract_metadata
ExtractMetadata(text) ==
    LET yaml_match == YamlMatch(text)
    IN IF yaml_match.matched
       THEN MetadataOfLines(Split(yaml_match.group, "\n"), <<>>)
       ELSE <<>>

(***************************************************************************)
(* State                                                                   *)
(***************************************************************************)

VARIABLES
    pc,             \* the position of the caller
    template,       \* template_structure
    document,       \* content_structure; its "elements" field is a list id
    lists,          \* heap: list id -> sequence of object ids
    objs,           \* heap: object id -> element record
    issues,         \* ContentMapper.structure_issues
    mapped,         \* mapped_content returned by ContentMapper.map
    styled,         \* styled_content (process reassigns it after remediation)
    restyled,       \* the result of a second apply_styles on styled
    given,          \* the issues argument of AIHelper.adjust_structure
    adjusted,       \* what AIHelper.adjust_structure returned
    markdown_file,  \* argument of process
    template_file,  \* argument of process
    output_file,    \* argument of process, None until process resolves it
    trace,          \* the stages process has entered, in order
    outcome,        \* how process ended: nothing yet, a return value, an exception
    resolved,       \* history: the styled content, by value, as apply_styles returned it
    rendered,       \* history: the content, by value, handed to the output generator
    structure,      \* MarkdownParser id -> list id of its extractor's structure list
    calls,          \* the number of calls made on the object under study
    earlier,        \* history: what each call returned, by reference and by value
    runs,           \* the local variables of each of several process invocations
    markdown_text,  \* the text given to MarkdownParser._extract_metadata
    exit_status,    \* the status main has returned, empty while it runs
    stdout,         \* the lines main has printed
    warnings,       \* the warnings StyleMapper has logged
    written,        \* the output file an output generator has written
    disk            \* the files as the output generator finds them

heap == <<lists, objs>>

call == <<markdown_file, template_file, output_file, trace, outcome, resolved, rendered,
          markdown_text, exit_status, stdout>>

later == <<structure, calls, earlier, runs, markdown_text, exit_status, stdout>>

vars == <<pc, template, document, lists, objs, issues, mapped, styled,
          restyled, given, adjusted, markdown_file, template_file, output_file,
          trace, outcome, resolved, rendered, structure, calls, earlier, runs,
          markdown_text, exit_status, stdout,
          warnings, written, disk>>

\* The element records a content dict refers to, in list order.
Elements(content) == [i \in 1..Len(lists[content.elements]) |-> objs[lists[content.elements][i]]]

\* A content dict by value: its top-level fields and its element records.
Value(content) ==
    IF "elements" \in DOMAIN content THEN Put(content, "elements", Elements(content))
    ELSE content

NoOutcome == [kind |-> "running"]

Returned(v) == [kind |-> "returned", value |-> v]

Raised(e) == [kind |-> "raised", error |-> e]

(***************************************************************************)
(* The calls                                                               *)
(***************************************************************************)

\* MarkdownParser.parse on the parser whose extractor's structure list is
\* list_id, for a text with the elements d: convert makes the extractor
\* append the text's element records to its structure list, and the
\* document returned refers to that list.
ParseInto(list_id, d) ==
    /\ objs' = objs \o d
    /\ lists' = [lists EXCEPT ![list_id] = @ \o [i \in 1..Len(d) |-> Len(objs) + i]]
    /\ document' = [type |-> "document", elements |-> list_id, metadata |-> <<>>]

\* The top-level dict _map_to_docx and _map_to_tex build, its elements being
\* the list list_id.
MappedTop(template_structure, list_id) ==
    LET base == [type |-> "mapped_content", template_type |-> template_structure.type,
                 elements |-> list_id]
    IN IF template_structure.type = "tex"
       THEN Put(Put(base, "document_class", Get(template_structure, "document_class", <<>>)),
                "packages", Get(template_structure, "packages", <<>>))
       ELSE base

\* A map that appends to the issues of the calls before it.
MapKnownCallKeeping ==
    LET r == MapElements(Elements(document), template)
        n == Len(r.elements)
    IN /\ objs' = objs \o r.elements
       /\ lists' = Append(lists, [i \in 1..n |-> Len(objs) + i])
       /\ issues' = issues \o r.issues
       /\ mapped' = MappedTop(template, Len(lists) + 1)

\* ContentMapper.map(content_structure, template_structure), docx and tex
\* branches: a new content dict with a new list of new element records.
MapKnownCall ==
    LET r == MapElements(Elements(document), template)
        n == Len(r.elements)
    IN /\ objs' = objs \o r.elements
       /\ lists' = Append(lists, [i \in 1..n |-> Len(objs) + i])
       /\ issues' = r.issues
       /\ mapped' = MappedTop(template, Len(lists) + 1)

\* A generic mapping that starts from an empty elements list, as the docx
\* and tex mappings do, and fills in nothing.
MapGenericCallEmpty ==
    /\ issues' = <<>>
    /\ lists' = Append(lists, <<>>)
    /\ objs' = objs
    /\ mapped' = Put(Put(Put(document, "type", "mapped_content"), "template_type", "generic"),
                     "elements", Len(lists) + 1)

\* ContentMapper.map, else branch: _map_generic copies the top-level dict.
MapGenericCall ==
    /\ issues' = <<>>
    /\ mapped' = Put(Put(document, "type", "mapped_content"), "template_type", "generic")
    /\ UNCHANGED heap

\* StyleMapper(template_format).apply_styles(content, template_structure):
\* the heap after the call.  elements is the list of the caller's dict; elements[i] =
\* ... stores a new styled record at every index of that list.
ApplyStylesHeap(template_format, content, template_structure) ==
    IF template_format \in {"docx", "tex"}
    THEN LET ids == lists[content.elements]
             n == Len(ids)
         IN [objs |-> objs \o [i \in 1..n |->
                          ApplyStyle(template_format, objs[ids[i]],
                                     Get(template_structure, "styles", <<>>))],
             lists |-> [lists EXCEPT ![content.elements] = [i \in 1..n |-> Len(objs) + i]]]
    ELSE [objs |-> objs, lists |-> lists]

\* styled_content = mapped_content.copy(); ...; styled_content['elements'] =
\* elements: the dict apply_styles returns.
ApplyStylesResult(content) == Put(content, "elements", content.elements)

\* The warnings one apply_styles call logs, in the order of the elements.
ApplyStylesWarnings(template_format, content, template_structure) ==
    StyleWarnings(template_format,
                  [i \in DOMAIN lists[content.elements] |-> objs[lists[content.elements][i]]],
                  Get(template_structure, "styles", <<>>))

\* AIHelper.adjust_structure(content, issue_list) when the adjustment does
\* not raise: None for an empty issue list, else a copy of the top-level
\* dict with a copy of the list, the matched element records patched.
AdjustStructure(content, issue_list) ==
    /\ given' = issue_list
    /\ IF issue_list = <<>>
       THEN /\ adjusted' = None
            /\ UNCHANGED heap
       ELSE /\ lists' = Append(lists, lists[content.elements])
            /\ objs' = SimulateAiAdjustment(objs, lists[content.elements], issue_list)
            /\ adjusted' = Put(content, "elements", Len(lists) + 1)

\* An adjustment that raises only after it has written its patches.
AdjustStructureFailsLate(content, issue_list) ==
    /\ issue_list # <<>>
    /\ given' = issue_list
    /\ adjusted' = None
    /\ lists' = lists
    /\ objs' = SimulateAiAdjustment(objs, lists[content.elements], issue_list)

\* AIHelper.adjust_structure(content, issue_list) when the adjustment
\* capability is not available: the call inside try raises, the except
\* branch logs and returns None.
AdjustStructureUnavailable(content, issue_list) ==
    /\ issue_list # <<>>
    /\ given' = issue_list
    /\ adjusted' = None
    /\ UNCHANGED heap

(***************************************************************************)
(* A caller that uses the components one after the other                   *)
(***************************************************************************)

\* The issue lists a caller may hand to adjust_structure directly.
GivenIssues ==
    SeqsUpTo({ Issue(k, lt[1], lt[2]) :
                 k \in {"missing_heading_style", "missing_heading_command"},
                 lt \in {<<1, "A">>, <<6, "A">>, <<1, "B">>} }, MaxIssues)

Init ==
    /\ pc = "start"
    /\ template \in Templates
    /\ \E d \in SourceDocs :
          /\ objs = d
          /\ lists = << [i \in 1..Len(d) |-> i] >>
    /\ document = [type |-> "document", elements |-> 1, metadata |-> <<>>]
    /\ issues = <<>>
    /\ mapped = None
    /\ styled = None
    /\ restyled = None
    /\ given = <<>>
    /\ adjusted = None
    /\ markdown_file = NonePath
    /\ template_file = NonePath
    /\ output_file = NonePath
    /\ trace = <<>>
    /\ outcome = NoOutcome
    /\ resolved = None
    /\ rendered = None
    /\ structure = <<>>
    /\ calls = 0
    /\ earlier = <<>>
    /\ runs = <<>>
    /\ markdown_text = <<>>
    /\ exit_status = <<>>
    /\ stdout = <<>>
    /\ warnings = <<>>
    /\ written = NoFile /\ disk = IntactDisk

\* mapper.map(document, template) on a docx or tex template structure
MapKnown ==
    /\ pc = "start"
    /\ template.type \in {"docx", "tex"}
    /\ MapKnownCall
    /\ pc' = "mapped"
    /\ UNCHANGED <<template, document, styled, restyled, given, adjusted, call>>
    /\ UNCHANGED later
    /\ UNCHANGED <<warnings, written, disk>>

\* mapper.map(document, template) on a template structure of another type
MapGeneric ==
    /\ pc = "start"
    /\ template.type \notin {"docx", "tex"}
    /\ MapGenericCall
    /\ pc' = "mapped"
    /\ UNCHANGED <<template, document, styled, restyled, given, adjusted, call>>
    /\ UNCHANGED later
    /\ UNCHANGED <<warnings, written, disk>>

\* StyleMapper(template.type).apply_styles(mapped, template)
ApplyStyles ==
    /\ pc = "mapped"
    /\ LET h == ApplyStylesHeap(template.type, mapped, template)
       IN objs' = h.objs /\ lists' = h.lists
    /\ styled' = ApplyStylesResult(mapped)
    /\ pc' = "styled"
    /\ UNCHANGED <<template, document, issues, mapped, restyled, given, adjusted, call>>
    /\ UNCHANGED later
    /\ warnings' = warnings \o ApplyStylesWarnings(template.type, mapped, template)
    /\ UNCHANGED <<written, disk>>

\* apply_styles once more, on its own result
ApplyStylesAgain ==
    /\ pc = "styled"
    /\ LET h == ApplyStylesHeap(template.type, styled, template)
       IN objs' = h.objs /\ lists' = h.lists
    /\ restyled' = ApplyStylesResult(styled)
    /\ pc' = "restyled"
    /\ UNCHANGED <<template, document, issues, mapped, styled, given, adjusted, call>>
    /\ UNCHANGED later
    /\ warnings' = warnings \o ApplyStylesWarnings(template.type, styled, template)
    /\ UNCHANGED <<written, disk>>

\* adjust_structure(styled, mapper.get_structure_issues())
AdjustWithMapperIssues ==
    /\ pc = "styled"
    /\ AdjustStructure(styled, issues)
    /\ pc' = "adjusted"
    /\ UNCHANGED <<template, document, issues, mapped, styled, restyled, call>>
    /\ UNCHANGED later
    /\ UNCHANGED <<warnings, written, disk>>

\* adjust_structure(styled, issue_list) with issues of the caller's choice
AdjustWithGivenIssues ==
    /\ pc = "styled"
    /\ \E issue_list \in GivenIssues : AdjustStructure(styled, issue_list)
    /\ pc' = "adjusted"
    /\ UNCHANGED <<template, document, issues, mapped, styled, restyled, call>>
    /\ UNCHANGED later
    /\ UNCHANGED <<warnings, written, disk>>

Next ==
    \/ MapKnown
    \/ MapGeneric
    \/ ApplyStyles
    \/ ApplyStylesAgain
    \/ AdjustWithMapperIssues
    \/ AdjustWithGivenIssues

Spec == Init /\ [][Next]_vars

(***************************************************************************)
(* TemplateMapper.process                                                  *)
(***************************************************************************)

TemplateFiles ==
    { <<"t", ".", "d", "o", "c", "x">>, <<"t", ".", "D", "o", "c", "X">>,
      <<"t", ".", "t", "e", "x">>, <<"t", ".", "T", "E", "X">>,
      <<"t", ".", "o", "d", "t">>, <<"t", ".", "O", "D", "T">>,
      <<"t">>, <<".", "t", "e", "x">>, <<"d", ".", "t", "e", "x", "/", "t">>,
      <<"t", ".", "t", "e", "x", ".", "o", "d", "t">> }

MarkdownFiles == { <<"m", ".", "m", "d">>, <<"d", ".", "x", "/", "m">> }

OutputFiles == { NonePath, <<"o", ".", "x">> }

\* A parser that returns style tables as the template file has them,
\* without filling in the basic styles.
ParsedTemplatesAsFound(format, file) ==
    { Put(t, "path", file) : t \in { u \in Templates : u.type = format } }

\* The template structures the parser of a format can return for a file:
\* DocxTemplateParser._extract_styles always provides Normal and Heading 1
\* to 6, TexTemplateParser._extract_styles every heading command and
\* environment.
ParsedTemplates(format, file) ==
    { Put(t, "path", file) :
        t \in { u \in Templates :
                  /\ u.type = format
                  /\ format = "docx" => DocxBasicStyles \subseteq DOMAIN u.styles
                  /\ format = "tex" => TexHeadingCommands \subseteq DOMAIN u.styles } }

InitProcess ==
    /\ pc = "process"
    /\ markdown_file \in MarkdownFiles
    /\ template_file \in TemplateFiles
    /\ output_file \in OutputFiles
    /\ template = None
    /\ document = None
    /\ structure = <<1>>
    /\ lists = << <<>> >>
    /\ objs = <<>>
    /\ issues = <<>>
    /\ mapped = None
    /\ styled = None
    /\ restyled = None
    /\ given = <<>>
    /\ adjusted = None
    /\ trace = <<>>
    /\ outcome = NoOutcome
    /\ resolved = None
    /\ rendered = None
    /\ calls = 0
    /\ earlier = <<>>
    /\ runs = <<>>
    /\ markdown_text = <<>>
    /\ exit_status = <<>>
    /\ stdout = <<>>
    /\ warnings = <<>>
    /\ written = NoFile /\ disk = IntactDisk

\* process, lines 50-53: the template format is not supported
ProcessRejectFormat ==
    /\ pc = "process"
    /\ Unsupported(GetFileExtension(template_file))
    /\ outcome' = Raised("ValueError")
    /\ pc' = "raised"
    /\ UNCHANGED <<template, document, heap, issues, mapped, styled, restyled, given,
                   adjusted, markdown_file, template_file, output_file, trace,
                   resolved, rendered>>
    /\ UNCHANGED later
    /\ UNCHANGED <<warnings, written, disk>>

\* process, lines 50-57: the format is supported; the output file name is
\* generated when none was given
ProcessAcceptFormat ==
    /\ pc = "process"
    /\ ~Unsupported(GetFileExtension(template_file))
    /\ output_file' = IF output_file = NonePath
                      THEN GenerateOutputFilename(markdown_file, GetFileExtension(template_file))
                      ELSE output_file
    /\ pc' = "read"
    /\ UNCHANGED <<template, document, heap, issues, mapped, styled, restyled, given,
                   adjusted, markdown_file, template_file, trace, outcome,
                   resolved, rendered>>
    /\ UNCHANGED later
    /\ UNCHANGED <<warnings, written, disk>>

\* process, lines 59-62: _read_file and markdown_parser.parse
ProcessParseMarkdown ==
    /\ pc = "read"
    /\ \E d \in SourceDocs : ParseInto(structure[1], d)
    /\ trace' = Append(trace, "parse_markdown")
    /\ pc' = "template"
    /\ UNCHANGED <<template, issues, mapped, styled, restyled, given, adjusted,
                   markdown_file, template_file, output_file, outcome, resolved, rendered>>
    /\ UNCHANGED later
    /\ UNCHANGED <<warnings, written, disk>>

\* process, lines 64-67: create_parser and template_parser.parse
ProcessParseTemplate ==
    /\ pc = "template"
    /\ disk.template
    /\ template' \in ParsedTemplates(FormatNamed(GetFileExtension(template_file)), template_file)
    /\ trace' = Append(trace, "parse_template")
    /\ pc' = "map"
    /\ UNCHANGED <<document, heap, issues, mapped, styled, restyled, given, adjusted,
                   markdown_file, template_file, output_file, outcome, resolved, rendered>>
    /\ UNCHANGED later
    /\ UNCHANGED <<warnings, written, disk>>

\* process, lines 69-72: ContentMapper().map
ProcessMap ==
    /\ pc = "map"
    /\ IF template.type \in {"docx", "tex"} THEN MapKnownCall ELSE MapGenericCall
    /\ trace' = Append(trace, "map")
    /\ pc' = "style"
    /\ UNCHANGED <<template, document, styled, restyled, given, adjusted,
                   markdown_file, template_file, output_file, outcome, resolved, rendered>>
    /\ UNCHANGED later
    /\ UNCHANGED <<warnings, written, disk>>

\* process, lines 74-77: StyleMapper(template_format).apply_styles
ProcessApplyStyles ==
    /\ pc = "style"
    /\ LET h == ApplyStylesHeap(FormatNamed(GetFileExtension(template_file)), mapped, template)
       IN objs' = h.objs /\ lists' = h.lists
    /\ styled' = ApplyStylesResult(mapped)
    /\ resolved' = Value(styled)'
    /\ trace' = Append(trace, "apply_styles")
    /\ pc' = "remediate"
    /\ UNCHANGED <<template, document, issues, mapped, restyled, given, adjusted,
                   markdown_file, template_file, output_file, outcome, rendered>>
    /\ UNCHANGED later
    /\ warnings' = warnings \o ApplyStylesWarnings(FormatNamed(GetFileExtension(template_file)), mapped, template)
    /\ UNCHANGED <<written, disk>>

\* process, line 80: has_structure_issues() is false
ProcessNoIssues ==
    /\ pc = "remediate"
    /\ Len(issues) = 0
    /\ pc' = "generate"
    /\ UNCHANGED <<template, document, heap, issues, mapped, styled, restyled, given,
                   adjusted, call>>
    /\ UNCHANGED later
    /\ UNCHANGED <<warnings, written, disk>>

\* A remediation whose result is not adopted.
ProcessRemediateDiscarding ==
    /\ pc = "remediate"
    /\ Len(issues) > 0
    /\ AdjustStructure(styled, issues)
    /\ trace' = Append(trace, "adjust_structure")
    /\ pc' = "generate"
    /\ UNCHANGED <<template, document, issues, mapped, styled, restyled,
                   markdown_file, template_file, output_file, outcome, resolved, rendered>>
    /\ UNCHANGED later
    /\ UNCHANGED <<warnings, written, disk>>

\* process, lines 80-85: adjust_structure returns the adjusted content,
\* which replaces styled_content
ProcessRemediate ==
    /\ pc = "remediate"
    /\ Len(issues) > 0
    /\ AdjustStructure(styled, issues)
    /\ styled' = IF adjusted' # None THEN adjusted' ELSE styled
    /\ trace' = Append(trace, "adjust_structure")
    /\ pc' = "generate"
    /\ UNCHANGED <<template, document, issues, mapped, restyled,
                   markdown_file, template_file, output_file, outcome, resolved, rendered>>
    /\ UNCHANGED later
    /\ UNCHANGED <<warnings, written, disk>>

\* process, lines 80-85: the adjustment fails, adjust_structure returns
\* None and styled_content stays
ProcessRemediationFails ==
    /\ pc = "remediate"
    /\ Len(issues) > 0
    /\ AdjustStructureUnavailable(styled, issues)
    /\ styled' = IF adjusted' # None THEN adjusted' ELSE styled
    /\ trace' = Append(trace, "adjust_structure_failed")
    /\ pc' = "generate"
    /\ UNCHANGED <<template, document, issues, mapped, restyled,
                   markdown_file, template_file, output_file, outcome, resolved, rendered>>
    /\ UNCHANGED later
    /\ UNCHANGED <<warnings, written, disk>>

\* process, lines 87-93: create_generator, generate, return output_file
\* A generator that writes wherever it is told to, writable or not.
ProcessGenerateAnywhere ==
    /\ pc = "generate"
    /\ rendered' = Value(styled)
    /\ written' = GenerateOutput(FormatNamed(GetFileExtension(template_file)),
                                 Elements(styled), disk.template)
    /\ trace' = Append(trace, "generate")
    /\ outcome' = Returned(output_file)
    /\ pc' = "returned"
    /\ UNCHANGED <<template, document, heap, issues, mapped, styled, restyled, given,
                   adjusted, markdown_file, template_file, output_file, resolved>>
    /\ UNCHANGED later
    /\ UNCHANGED <<warnings, disk>>

\* process, lines 87-93: create_generator and generate, completing: the
\* output file is written, from the template file when it is there and
\* without it (a blank document, an empty preamble) when it is not.
ProcessGenerate ==
    /\ pc = "generate"
    /\ disk.writable
    /\ rendered' = Value(styled)
    /\ written' = GenerateOutput(FormatNamed(GetFileExtension(template_file)),
                                 Elements(styled), disk.template)
    /\ trace' = Append(trace, "generate")
    /\ outcome' = Returned(output_file)
    /\ pc' = "returned"
    /\ UNCHANGED <<template, document, heap, issues, mapped, styled, restyled, given,
                   adjusted, markdown_file, template_file, output_file, resolved>>
    /\ UNCHANGED later
    /\ UNCHANGED <<warnings, disk>>

\* A failing stage that is entered again instead of ending the run.
ProcessStageRetries ==
    /\ pc \in {"read", "template", "generate"}
    /\ trace' = Append(trace, CASE pc = "read" -> "parse_markdown"
                                [] pc = "template" -> "parse_template"
                                [] pc = "generate" -> "generate")
    /\ UNCHANGED <<pc, template, document, heap, issues, mapped, styled, restyled, given,
                   adjusted, markdown_file, template_file, output_file, outcome,
                   resolved, rendered>>
    /\ UNCHANGED later
    /\ UNCHANGED <<warnings, written, disk>>

\* A stage that touches a file raises (the markdown file or the template
\* file cannot be read, the output cannot be written): process has no
\* handler, the exception reaches the caller.
ProcessStageRaises ==
    /\ pc \in {"read", "template", "generate"}
    /\ trace' = Append(trace, CASE pc = "read" -> "parse_markdown"
                                [] pc = "template" -> "parse_template"
                                [] pc = "generate" -> "generate")
    /\ rendered' = IF pc = "generate" THEN Value(styled) ELSE rendered
    /\ outcome' = Raised("OSError")
    /\ pc' = "raised"
    /\ UNCHANGED <<template, document, heap, issues, mapped, styled, restyled, given,
                   adjusted, markdown_file, template_file, output_file, resolved>>
    /\ UNCHANGED later
    /\ UNCHANGED <<warnings, written, disk>>

NextProcess ==
    \/ ProcessRejectFormat
    \/ ProcessAcceptFormat
    \/ ProcessParseMarkdown
    \/ ProcessParseTemplate
    \/ ProcessMap
    \/ ProcessApplyStyles
    \/ ProcessNoIssues
    \/ ProcessRemediate
    \/ ProcessRemediationFails
    \/ ProcessGenerate
    \/ ProcessStageRaises

SpecProcess == InitProcess /\ [][NextProcess]_vars

\* A process invocation whose output path may not be writable
InitRender ==
    /\ pc = "process"
    /\ markdown_file \in MarkdownFiles
    /\ template_file \in TemplateFiles
    /\ output_file \in OutputFiles
    /\ template = None
    /\ document = None
    /\ structure = <<1>>
    /\ lists = << <<>> >>
    /\ objs = <<>>
    /\ issues = <<>>
    /\ mapped = None
    /\ styled = None
    /\ restyled = None
    /\ given = <<>>
    /\ adjusted = None
    /\ trace = <<>>
    /\ outcome = NoOutcome
    /\ resolved = None
    /\ rendered = None
    /\ calls = 0
    /\ earlier = <<>>
    /\ runs = <<>>
    /\ markdown_text = <<>>
    /\ exit_status = <<>>
    /\ stdout = <<>>
    /\ warnings = <<>>
    /\ written = NoFile
    /\ disk \in [template : {TRUE}, writable : BOOLEAN]

\* The template file is removed while process runs (os.path.exists of the
\* generators will answer False).
TemplateFileRemoved ==
    /\ pc \notin {"returned", "raised"}
    /\ disk.template
    /\ disk' = [disk EXCEPT !.template = FALSE]
    /\ UNCHANGED <<pc, template, document, heap, issues, mapped, styled, restyled, given,
                   adjusted, call>>
    /\ UNCHANGED <<structure, calls, earlier, runs>>
    /\ UNCHANGED <<warnings, written>>

NextRender ==
    \/ NextProcess
    \/ TemplateFileRemoved

SpecRender == InitRender /\ [][NextRender]_vars

\* Issue lists of any content: of both kinds the mapper records and of a
\* kind it never records, for headings of the documents and for one that no
\* document has.
AnyIssues ==
    SeqsUpTo({ Issue(k, lt[1], lt[2]) :
                 k \in {"missing_heading_style", "missing_heading_command", "other"},
                 lt \in {<<1, "A">>, <<6, "A">>, <<2, "Z">>} }, MaxIssues)

\* adjust_structure(styled, issue_list) with any such issue list
AdjustWithAnyIssues ==
    /\ pc = "styled"
    /\ \E issue_list \in AnyIssues : AdjustStructure(styled, issue_list)
    /\ pc' = "adjusted"
    /\ UNCHANGED <<template, document, issues, mapped, styled, restyled, call>>
    /\ UNCHANGED later
    /\ UNCHANGED <<warnings, written, disk>>

NextAdjust ==
    \/ MapKnown
    \/ MapGeneric
    \/ ApplyStyles
    \/ AdjustWithAnyIssues

SpecAdjust == Init /\ [][NextAdjust]_vars

\* A caller that either runs process or calls the components itself.
InitCallers == Init \/ InitProcess

NextCallers ==
    \/ Next
    \/ NextProcess

SpecCallers == InitCallers /\ [][NextCallers]_vars

(***************************************************************************)
(* main: the command line entry                                            *)
(***************************************************************************)

\* print(f"处理完成，输出文件: {output_file}"): one line, the fixed words
\* (written "done, output file: " here) and the path.
PrintedOutput(path) == [text |-> "done, output file: ", path |-> path]

\* print(f"错误: {str(e)}"): one line, the fixed word (written "error: "
\* here) and the message of the exception.
PrintedError(e) == [text |-> "error: ", message |-> e]

\* parse_args has returned the three arguments; no TemplateMapper yet.
InitMain ==
    /\ pc = "main"
    /\ markdown_file \in MarkdownFiles
    /\ template_file \in TemplateFiles
    /\ output_file \in OutputFiles
    /\ template = None /\ document = None /\ issues = <<>> /\ mapped = None
    /\ styled = None /\ restyled = None /\ given = <<>> /\ adjusted = None
    /\ trace = <<>> /\ outcome = NoOutcome /\ resolved = None /\ rendered = None
    /\ markdown_text = <<>> /\ exit_status = <<>> /\ stdout = <<>>
    /\ warnings = <<>>
    /\ written = NoFile /\ disk = IntactDisk
    /\ structure = <<>> /\ lists = <<>> /\ objs = <<>>
    /\ calls = 0 /\ earlier = <<>> /\ runs = <<>>

\* mapper = TemplateMapper(): its MarkdownParser is built, with an
\* extractor whose structure list is empty; process is called next.
MainBuildsMapper ==
    /\ pc = "main"
    /\ structure' = <<Len(lists) + 1>>
    /\ lists' = Append(lists, <<>>)
    /\ pc' = "process"
    /\ UNCHANGED <<template, document, objs, issues, mapped, styled, restyled, given,
                   adjusted, call, calls, earlier, runs>>
    /\ UNCHANGED <<warnings, written, disk>>

\* TemplateMapper() raises (one of the components cannot be built).
MainBuildRaises ==
    /\ pc = "main"
    /\ outcome' = Raised("Exception")
    /\ pc' = "raised"
    /\ UNCHANGED <<template, document, heap, issues, mapped, styled, restyled, given,
                   adjusted, markdown_file, template_file, output_file, trace, resolved,
                   rendered, markdown_text, exit_status, stdout, structure, calls,
                   earlier, runs>>
    /\ UNCHANGED <<warnings, written, disk>>

\* process has returned: the output path is printed, then return 0.
MainPrintsOutput ==
    /\ pc = "returned"
    /\ stdout' = Append(stdout, PrintedOutput(outcome.value))
    /\ exit_status' = <<0>>
    /\ pc' = "exited"
    /\ UNCHANGED <<template, document, heap, issues, mapped, styled, restyled, given,
                   adjusted, markdown_file, template_file, output_file, trace, outcome,
                   resolved, rendered, markdown_text, structure, calls, earlier, runs>>
    /\ UNCHANGED <<warnings, written, disk>>

\* An error handler that prints nothing.
MainHandlesErrorSilently ==
    /\ pc = "raised"
    /\ exit_status' = <<1>>
    /\ pc' = "exited"
    /\ UNCHANGED <<template, document, heap, issues, mapped, styled, restyled, given,
                   adjusted, markdown_file, template_file, output_file, trace, outcome,
                   resolved, rendered, markdown_text, stdout, structure, calls, earlier,
                   runs>>
    /\ UNCHANGED <<warnings, written, disk>>

\* except Exception as e: the error goes to the log, its message is
\* printed, then return 1.
MainHandlesError ==
    /\ pc = "raised"
    /\ stdout' = Append(stdout, PrintedError(outcome.error))
    /\ exit_status' = <<1>>
    /\ pc' = "exited"
    /\ UNCHANGED <<template, document, heap, issues, mapped, styled, restyled, given,
                   adjusted, markdown_file, template_file, output_file, trace, outcome,
                   resolved, rendered, markdown_text, structure, calls, earlier, runs>>
    /\ UNCHANGED <<warnings, written, disk>>

NextMain ==
    \/ MainBuildsMapper
    \/ MainBuildRaises
    \/ NextProcess
    \/ MainPrintsOutput
    \/ MainHandlesError

SpecMain == InitMain /\ [][NextMain]_vars

(***************************************************************************)
(* MarkdownParser objects and their parse calls                            *)
(***************************************************************************)

\* The values of the variables a specification does not use.
Idle ==
    /\ template = None /\ document = None /\ issues = <<>> /\ mapped = None
    /\ styled = None /\ restyled = None /\ given = <<>> /\ adjusted = None
    /\ markdown_file = NonePath /\ template_file = NonePath /\ output_file = NonePath
    /\ trace = <<>> /\ outcome = NoOutcome /\ resolved = None /\ rendered = None
    /\ markdown_text = <<>> /\ exit_status = <<>> /\ stdout = <<>>
    /\ warnings = <<>>
    /\ written = NoFile /\ disk = IntactDisk

\* One MarkdownParser has been constructed: extendMarkdown has made its
\* extractor, whose structure list is empty.
InitParser ==
    /\ pc = "parser"
    /\ Idle
    /\ structure = <<1>>
    /\ lists = << <<>> >>
    /\ objs = <<>>
    /\ calls = 0
    /\ earlier = <<>>
    /\ runs = <<>>

\* MarkdownParser(): another parser, with an extractor of its own
NewParser ==
    /\ Len(structure) < MaxParsers
    /\ structure' = Append(structure, Len(lists) + 1)
    /\ lists' = Append(lists, <<>>)
    /\ UNCHANGED <<pc, template, document, objs, issues, mapped, styled, restyled, given,
                   adjusted, call, calls, earlier, runs>>
    /\ UNCHANGED <<warnings, written, disk>>

\* parser.parse(markdown_text), on any of the parsers, for a text with the
\* elements d
Parse ==
    /\ calls < MaxCalls
    /\ \E p \in DOMAIN structure, d \in SourceDocs :
          /\ ParseInto(structure[p], d)
          /\ earlier' = Append(earlier, [parser |-> p, text |-> d, document |-> document'])
    /\ calls' = calls + 1
    /\ UNCHANGED <<pc, template, issues, mapped, styled, restyled, given, adjusted, call,
                   structure, runs>>
    /\ UNCHANGED <<warnings, written, disk>>

NextParser ==
    \/ NewParser
    \/ Parse

SpecParser == InitParser /\ [][NextParser]_vars

(***************************************************************************)
(* One ContentMapper and its map calls                                     *)
(***************************************************************************)

\* The documents and templates handed to the map calls.
MapperDocs == SeqsUpTo({Heading(1, "A"), Heading(6, "A")}, MaxElems)

MapperTemplates ==
    { t \in Templates :
        \/ t.type = "docx" /\ t.structure = <<>> /\ DocxBasicStyles \subseteq DOMAIN t.styles
        \/ t.type = "tex" /\ t.styles = TexParserDefaults
        \/ t.type \notin {"docx", "tex"} }

\* ContentMapper(): structure_issues is empty.
InitMapper ==
    /\ pc = "mapper"
    /\ Idle
    /\ structure = <<>>
    /\ lists = <<>>
    /\ objs = <<>>
    /\ calls = 0
    /\ earlier = <<>>
    /\ runs = <<>>

\* The caller has a Document and a template structure for the next call.
GiveInputs ==
    /\ pc \in {"mapper", "mapped"}
    /\ calls < MaxCalls
    /\ \E d \in MapperDocs, t \in MapperTemplates :
          /\ objs' = objs \o d
          /\ lists' = Append(lists, [i \in 1..Len(d) |-> Len(objs) + i])
          /\ document' = [type |-> "document", elements |-> Len(lists) + 1, metadata |-> <<>>]
          /\ template' = t
    /\ pc' = "inputs"
    /\ UNCHANGED <<issues, mapped, styled, restyled, given, adjusted, call, later>>
    /\ UNCHANGED <<warnings, written, disk>>

\* mapper.map(document, template) on the same ContentMapper; earlier keeps
\* what get_structure_issues() returned after each call.
MapAgain ==
    /\ pc = "inputs"
    /\ IF template.type \in {"docx", "tex"} THEN MapKnownCall ELSE MapGenericCall
    /\ calls' = calls + 1
    /\ earlier' = Append(earlier, issues')
    /\ pc' = "mapped"
    /\ UNCHANGED <<template, document, styled, restyled, given, adjusted, call,
                   structure, runs>>
    /\ UNCHANGED <<warnings, written, disk>>

NextMapper ==
    \/ GiveInputs
    \/ MapAgain

SpecMapper == InitMapper /\ [][NextMapper]_vars

(***************************************************************************)
(* Two process invocations running interleaved                             *)
(***************************************************************************)

Invocations == {1, 2}

\* What the markdown files of the invocations hold.
ConcurrentDocs ==
    SeqsUpTo({Heading(1, "A"), Heading(6, "A"), [type |-> "paragraph", text |-> "A"]},
             MaxConcurrentElems)

\* What the template files of the invocations hold.
ConcurrentTemplates ==
    { t \in Templates :
        \/ /\ t.type = "docx"
           /\ DocxBasicStyles \subseteq DOMAIN t.styles
           /\ t.structure \in {<<>>, <<TplHeading(1, "Heading 1"), TplHeading(6, "Heading 6"),
                                       TplHeading(1, "Heading 1 Alt")>>}
        \/ /\ t.type = "tex"
           /\ TexHeadingCommands \subseteq DOMAIN t.styles
           /\ t.styles[<<"section">>].definition
                 \in {<<"\\", "section">>, <<"\\", "Large", "\\", "bfseries">>} }

\* Two TemplateMapper objects exist, each with its MarkdownParser; both
\* invocations are made on the first, or one on each.  Each invocation has
\* been given files and has passed the format check.
InitConcurrent ==
    /\ pc = "concurrent"
    /\ Idle
    /\ structure = <<1, 2>>
    /\ lists = << <<>>, <<>> >>
    /\ objs = <<>>
    /\ calls = 0
    /\ earlier = <<>>
    /\ \E on \in {<<1, 1>>, <<1, 2>>} :
       \E text \in [Invocations -> ConcurrentDocs] :
       \E tpl \in [Invocations -> ConcurrentTemplates] :
          runs = [i \in Invocations |->
                    [pc |-> "read", mapper |-> on[i], text |-> text[i], tpl |-> tpl[i],
                     document |-> None, template |-> None, mapped |-> None,
                     issues |-> <<>>, styled |-> None]]

\* What an action of one invocation leaves alone.
RunFrame ==
    UNCHANGED <<pc, template, document, issues, mapped, styled, restyled, given, adjusted,
                call, structure, calls, earlier>>

\* process, lines 59-62, in invocation i
RunParse(i) ==
    /\ runs[i].pc = "read"
    /\ LET list_id == structure[runs[i].mapper]
           d == runs[i].text
       IN /\ objs' = objs \o d
          /\ lists' = [lists EXCEPT ![list_id] = @ \o [k \in 1..Len(d) |-> Len(objs) + k]]
          /\ runs' = [runs EXCEPT ![i].pc = "template",
                                  ![i].document = [type |-> "document", elements |-> list_id,
                                                   metadata |-> <<>>]]
    /\ RunFrame
    /\ UNCHANGED <<warnings, written, disk>>

\* process, lines 64-67, in invocation i
RunParseTemplate(i) ==
    /\ runs[i].pc = "template"
    /\ runs' = [runs EXCEPT ![i].pc = "map", ![i].template = runs[i].tpl]
    /\ UNCHANGED heap
    /\ RunFrame
    /\ UNCHANGED <<warnings, written, disk>>

\* process, lines 69-72, in invocation i, on its own ContentMapper
RunMap(i) ==
    /\ runs[i].pc = "map"
    /\ LET r == MapElements(Elements(runs[i].document), runs[i].template)
           n == Len(r.elements)
       IN /\ objs' = objs \o r.elements
          /\ lists' = Append(lists, [k \in 1..n |-> Len(objs) + k])
          /\ runs' = [runs EXCEPT ![i].pc = "style",
                                  ![i].issues = r.issues,
                                  ![i].mapped = MappedTop(runs[i].template, Len(lists) + 1)]
    /\ RunFrame
    /\ UNCHANGED <<warnings, written, disk>>

\* process, lines 74-77, in invocation i, on its own StyleMapper
RunApplyStyles(i) ==
    /\ runs[i].pc = "style"
    /\ LET h == ApplyStylesHeap(runs[i].template.type, runs[i].mapped, runs[i].template)
       IN objs' = h.objs /\ lists' = h.lists
    /\ runs' = [runs EXCEPT ![i].pc = "remediate",
                            ![i].styled = ApplyStylesResult(runs[i].mapped)]
    /\ RunFrame
    /\ warnings' = warnings \o ApplyStylesWarnings(runs[i].template.type, runs[i].mapped, runs[i].template)
    /\ UNCHANGED <<written, disk>>

\* process, lines 79-85, in invocation i
RunRemediate(i) ==
    /\ runs[i].pc = "remediate"
    /\ IF runs[i].issues = <<>>
       THEN /\ runs' = [runs EXCEPT ![i].pc = "done"]
            /\ UNCHANGED heap
       ELSE /\ lists' = Append(lists, lists[runs[i].styled.elements])
            /\ objs' = SimulateAiAdjustment(objs, lists[runs[i].styled.elements],
                                            runs[i].issues)
            /\ runs' = [runs EXCEPT ![i].pc = "done",
                                    ![i].styled = Put(runs[i].styled, "elements",
                                                      Len(lists) + 1)]
    /\ RunFrame
    /\ UNCHANGED <<warnings, written, disk>>

NextConcurrent ==
    \E i \in Invocations :
        \/ RunParse(i)
        \/ RunParseTemplate(i)
        \/ RunMap(i)
        \/ RunApplyStyles(i)
        \/ RunRemediate(i)

SpecConcurrent == InitConcurrent /\ [][NextConcurrent]_vars

(***************************************************************************)
(* _extract_metadata on the text of a markdown file                        *)
(***************************************************************************)

\* The lines a markdown file is made of here, and the texts made of them:
\* the lines joined by \n, with or without a \n after the last line.
MetadataLines ==
    { Dashes, <<"k", ":", "v">>, <<"k", ":", " ", "w">>, <<"t">>, <<>> }

RECURSIVE JoinLines(_)
JoinLines(ls) ==
    IF ls = <<>> THEN <<>>
    ELSE IF Len(ls) = 1 THEN ls[1]
    ELSE ls[1] \o <<"\n">> \o JoinLines(Tail(ls))

MetadataTexts ==
    { JoinLines(ls) \o end :
        ls \in SeqsUpTo(MetadataLines, MaxLines), end \in {<<>>, <<"\n">>} }

\* A markdown file has been read; nothing has been extracted yet.
InitMetadata ==
    /\ pc = "text"
    /\ markdown_text \in MetadataTexts
    /\ template = None /\ document = None /\ issues = <<>> /\ mapped = None
    /\ styled = None /\ restyled = None /\ given = <<>> /\ adjusted = None
    /\ markdown_file = NonePath /\ template_file = NonePath /\ output_file = NonePath
    /\ trace = <<>> /\ outcome = NoOutcome /\ resolved = None /\ rendered = None
    /\ exit_status = <<>> /\ stdout = <<>>
    /\ warnings = <<>>
    /\ written = NoFile /\ disk = IntactDisk
    /\ structure = <<>> /\ lists = <<>> /\ objs = <<>>
    /\ calls = 0 /\ earlier = <<>> /\ runs = <<>>

\* 'metadata': self._extract_metadata(markdown_text); the returned mapping
\* is kept in earlier.
ExtractMetadataCall ==
    /\ pc = "text"
    /\ pc' = "metadata"
    /\ earlier' = <<ExtractMetadata(markdown_text)>>
    /\ UNCHANGED <<template, document, heap, issues, mapped, styled, restyled, given,
                   adjusted, call, structure, calls, runs>>
    /\ UNCHANGED <<warnings, written, disk>>

NextMetadata == ExtractMetadataCall

SpecMetadata == InitMetadata /\ [][NextMetadata]_vars

(***************************************************************************)
(* The docx mapping of every kind of element                               *)
(***************************************************************************)

\* One element record of each type the extractor produces, the table with
\* its rows, and a type the docx mapping has no branch for (table_row).
KindElements ==
    { Heading(1, "A"), Heading(2, "A"),
      [type |-> "paragraph", text |-> "A"],
      [type |-> "list_item", text |-> "A"],
      [type |-> "list", list_type |-> "ordered"],
      [type |-> "code_block", text |-> "A"],
      [type |-> "block_quote", text |-> "A"],
      [type |-> "table", rows |-> <<"r">>],
      [type |-> "image", src |-> "A", alt |-> "B"],
      [type |-> "table_row"] }

KindDocs == SeqsUpTo(KindElements, MaxElems)

\* A document of these elements and a docx template structure.
InitKinds ==
    /\ pc = "start"
    /\ template \in DocxTemplates
    /\ \E d \in KindDocs :
          /\ objs = d
          /\ lists = << [i \in 1..Len(d) |-> i] >>
    /\ document = [type |-> "document", elements |-> 1, metadata |-> <<>>]
    /\ issues = <<>> /\ mapped = None
    /\ styled = None /\ restyled = None /\ given = <<>> /\ adjusted = None
    /\ markdown_file = NonePath /\ template_file = NonePath /\ output_file = NonePath
    /\ trace = <<>> /\ outcome = NoOutcome /\ resolved = None /\ rendered = None
    /\ markdown_text = <<>> /\ exit_status = <<>> /\ stdout = <<>>
    /\ warnings = <<>>
    /\ written = NoFile /\ disk = IntactDisk
    /\ structure = <<>> /\ calls = 0 /\ earlier = <<>> /\ runs = <<>>

NextKinds == MapKnown

SpecKinds == InitKinds /\ [][NextKinds]_vars

\* A document of these elements and a docx or tex template structure.
InitStructure ==
    /\ pc = "start"
    /\ template \in DocxTemplates \cup TexTemplates
    /\ \E d \in KindDocs :
          /\ objs = d
          /\ lists = << [i \in 1..Len(d) |-> i] >>
    /\ document = [type |-> "document", elements |-> 1, metadata |-> <<>>]
    /\ issues = <<>> /\ mapped = None
    /\ styled = None /\ restyled = None /\ given = <<>> /\ adjusted = None
    /\ markdown_file = NonePath /\ template_file = NonePath /\ output_file = NonePath
    /\ trace = <<>> /\ outcome = NoOutcome /\ resolved = None /\ rendered = None
    /\ markdown_text = <<>> /\ exit_status = <<>> /\ stdout = <<>>
    /\ warnings = <<>>
    /\ written = NoFile /\ disk = IntactDisk
    /\ structure = <<>> /\ calls = 0 /\ earlier = <<>> /\ runs = <<>>

NextStructure == MapKnown

SpecStructure == InitStructure /\ [][NextStructure]_vars

\* The docx mapping of such a document followed by the style resolution,
\* once and once more.
NextResolve ==
    \/ MapKnown
    \/ ApplyStyles
    \/ ApplyStylesAgain

SpecResolve == InitKinds /\ [][NextResolve]_vars

(***************************************************************************)
(* Lists and paragraphs through the tex mapping, styles and generator      *)
(***************************************************************************)

\* Paragraphs and the list elements the tex mapping reads: the list
\* container (a list kind, no text) and list items, as extracted (no list
\* kind) and carrying a list kind.
ListElements ==
    { [type |-> "paragraph", text |-> "A"],
      [type |-> "list_item", text |-> "A"],
      [type |-> "list_item", text |-> "B", list_type |-> "ordered"],
      [type |-> "list_item", text |-> "A", list_type |-> "unordered"],
      [type |-> "list", list_type |-> "ordered"],
      [type |-> "list", list_type |-> "unordered"] }

ListDocs == SeqsUpTo(ListElements, MaxElems)

\* A document of these elements and a tex template structure.
InitLists ==
    /\ pc = "start"
    /\ template \in TexTemplates
    /\ \E d \in ListDocs :
          /\ objs = d
          /\ lists = << [i \in 1..Len(d) |-> i] >>
    /\ document = [type |-> "document", elements |-> 1, metadata |-> <<>>]
    /\ issues = <<>> /\ mapped = None
    /\ styled = None /\ restyled = None /\ given = <<>> /\ adjusted = None
    /\ markdown_file = NonePath /\ template_file = NonePath /\ output_file = NonePath
    /\ trace = <<>> /\ outcome = NoOutcome /\ resolved = None /\ rendered = None
    /\ markdown_text = <<>> /\ exit_status = <<>> /\ stdout = <<>>
    /\ warnings = <<>>
    /\ written = NoFile /\ disk = IntactDisk
    /\ structure = <<>> /\ calls = 0 /\ earlier = <<>> /\ runs = <<>>

\* OutputGeneratorFactory.create_generator(template.type).generate(styled,
\* template, output_file), completing.
Generate ==
    /\ pc = "styled"
    /\ template.type \in {"docx", "tex"}
    /\ disk.writable
    /\ written' = GenerateOutput(template.type, Elements(styled), disk.template)
    /\ pc' = "generated"
    /\ UNCHANGED <<template, document, heap, issues, mapped, styled, restyled, given,
                   adjusted, call>>
    /\ UNCHANGED later
    /\ UNCHANGED <<warnings, disk>>

NextLists ==
    \/ MapKnown
    \/ ApplyStyles
    \/ Generate

SpecLists == InitLists /\ [][NextLists]_vars

(***************************************************************************)
(* Vocabulary of the properties                                            *)
(***************************************************************************)

IsHeading(e) == Get(e, "type", "") = "heading"

Range(f) == { f[x] : x \in DOMAIN f }

\* The headings of a sequence of element records, in order.
HeadingsOf(elements) == SelectSeq(elements, IsHeading)

\* The levels that have a heading element among the template's extracted
\* structural elements.
TemplateHeadingLevels ==
    { template.structure[i].level :
        i \in { j \in DOMAIN template.structure : IsHeading(template.structure[j]) } }

\* The style name of the last template heading element of a level.
TemplateHeadingStyle(level) ==
    LET at == { j \in DOMAIN template.structure :
                  IsHeading(template.structure[j]) /\ template.structure[j].level = level }
        last == CHOOSE j \in at : \A k \in at : k <= j
    IN template.structure[last].style

\* The issue a heading gives rise to.
IssueFor(kind, heading) == Issue(kind, heading.level, heading.text)

IssuesFor(kind, headings) == [k \in DOMAIN headings |-> IssueFor(kind, headings[k])]

\* C1: in docx mapping, the mapped headings are the source headings in
\* order; one whose level has no heading element in the template's structure
\* has style "Heading {level}", one whose level is present has the
\* template's style name for the level; and the issues are exactly one
\* missing_heading_style issue (level, text) per heading of the first kind,
\* in source order.
DocxHeadingGaps ==
    (pc = "mapped" /\ template.type = "docx") =>
        LET source == HeadingsOf(Elements(document))
            out == HeadingsOf(Elements(mapped))
            Absent(h) == h.level \notin TemplateHeadingLevels
        IN /\ Len(out) = Len(source)
           /\ \A k \in DOMAIN source :
                 /\ out[k].level = source[k].level
                 /\ out[k].text = source[k].text
                 /\ out[k].style = IF Absent(source[k])
                                   THEN "Heading " \o ToString(source[k].level)
                                   ELSE TemplateHeadingStyle(source[k].level)
           /\ issues = IssuesFor("missing_heading_style", SelectSeq(source, Absent))

\* A docx mapping that met a heading with a missing level after a heading
\* that took the style of the template's last heading of its level.
DocxHeadingGapsWitness ==
    /\ pc = "mapped" /\ template.type = "docx"
    /\ Len(issues) = 1
    /\ Len(Elements(mapped)) = 2
    /\ Elements(mapped)[1].type = "heading" /\ Elements(mapped)[1].style = "Heading 1 Alt"
    /\ Elements(mapped)[2].type = "heading" /\ Elements(mapped)[2].style = "Heading 5"

\* The sectioning command name the spec gives a heading level: levels 1 to
\* 5 have their own, level 6 shares subparagraph with level 5.
SectioningName(level) ==
    CASE level = 1 -> <<"section">>
      [] level = 2 -> <<"subsection">>
      [] level = 3 -> <<"subsubsection">>
      [] level = 4 -> <<"paragraph">>
      [] level \in {5, 6} -> <<"subparagraph">>

\* C2: in tex mapping, every source heading whose sectioning command has no
\* entry in the template's style table is mapped with the fixed default
\* command of its level, and the issues recorded for these headings are
\* exactly one missing_heading_command issue (level, text) each, in source
\* order.
TexHeadingGaps ==
    (pc = "mapped" /\ template.type = "tex") =>
        LET source == HeadingsOf(Elements(document))
            out == HeadingsOf(Elements(mapped))
            NoOverride(h) == SectioningName(h.level) \notin DOMAIN template.styles
            gaps == SelectSeq(source, NoOverride)
            OfGap(issue) == \E k \in DOMAIN gaps :
                               issue.level = gaps[k].level /\ issue.text = gaps[k].text
        IN /\ Len(out) = Len(source)
           /\ \A k \in DOMAIN source :
                 NoOverride(source[k]) =>
                     out[k].command = <<"\\">> \o SectioningName(source[k].level)
           /\ SelectSeq(issues, OfGap) = IssuesFor("missing_heading_command", gaps)

\* A tex mapping of the single heading (1, "A") against an empty style
\* table: the default command and no issue.
TexHeadingGapsMissed ==
    /\ pc = "mapped" /\ template.type = "tex" /\ DOMAIN template.styles = {}
    /\ Elements(document) = <<Heading(1, "A")>>
    /\ Elements(mapped)[1].command = <<"\\", "section">>
    /\ issues = <<>>

\* A template defines the heading level: docx, a heading element of the
\* level is among the structural elements the mapper scans; tex, the style
\* table has a non-empty definition for the level's sectioning command.
DefinesLevel(level) ==
    IF template.type = "docx" THEN level \in TemplateHeadingLevels
    ELSE /\ SectioningName(level) \in DOMAIN template.styles
         /\ "definition" \in DOMAIN template.styles[SectioningName(level)]
         /\ template.styles[SectioningName(level)].definition # <<>>

\* C3: no false positives: when the template defines every heading level
\* that appears in the source document, map records no issue.
NoFalsePositives ==
    (/\ pc = "mapped" /\ template.type \in {"docx", "tex"}
     /\ \A h \in Range(HeadingsOf(Elements(document))) : DefinesLevel(h.level))
        => issues = <<>>

\* A tex mapping of a level-6 heading against a style table that defines
\* subparagraph: an issue is recorded.
FalsePositiveAtLevelSix ==
    /\ pc = "mapped" /\ template.type = "tex"
    /\ Elements(document) = <<Heading(6, "A")>>
    /\ DefinesLevel(6)
    /\ issues = <<Issue("missing_heading_command", 6, "A")>>

\* C4: apply_styles leaves the mapped content it was given (top-level
\* fields, elements list, element records) and the template as they were.
ApplyStylesPure ==
    [][(pc = "mapped" /\ pc' = "styled") =>
          /\ Value(mapped)' = Value(mapped)
          /\ template' = template]_vars

\* After apply_styles the content the mapper returned refers to the list the
\* styled content refers to, and its first element has the properties of a
\* template style attached, which the mapper never attaches.
MappedContentRestyled ==
    /\ pc = "styled" /\ template.type = "docx"
    /\ mapped.elements = styled.elements
    /\ Len(Elements(mapped)) > 0
    /\ "style_properties" \in DOMAIN Elements(mapped)[1]

\* C5: adjust_structure leaves the styled content it was given, with every
\* element record of its elements list, as it was.
AdjustOnWorkingCopy ==
    [][(pc = "styled" /\ pc' = "adjusted") => Value(styled)' = Value(styled)]_vars

\* After adjust_structure on the mapper's issue for a level-6 heading, the
\* styled content of a tex template that redefines subparagraph holds the
\* default command where the resolver had put the template's definition.
StyledContentPatched ==
    /\ pc = "adjusted" /\ template.type = "tex"
    /\ given = issues /\ issues = <<Issue("missing_heading_command", 6, "A")>>
    /\ <<"subparagraph">> \in DOMAIN template.styles
    /\ template.styles[<<"subparagraph">>].definition = <<"\\", "itshape">>
    /\ Len(Elements(styled)) = 1
    /\ Elements(styled)[1].command = <<"\\", "subparagraph">>

\* C6: the result of applying the styles to an already styled content is
\* that styled content.
ApplyStylesIdempotent ==
    [][(pc = "styled" /\ pc' = "restyled") => Value(restyled)' = Value(styled)]_vars

\* A second docx resolution of a level-5 heading whose mapped style name
\* (Heading 5) is not in the template's table while Heading 1 is: the first
\* resolution renamed the style, the second attached properties to it.
SecondResolutionAttaches ==
    /\ pc = "restyled" /\ template.type = "docx"
    /\ "Heading 5" \notin DOMAIN template.styles
    /\ Len(Elements(restyled)) = 1
    /\ Elements(restyled)[1].type = "heading" /\ Elements(restyled)[1].level = 5
    /\ Elements(restyled)[1].style = "Heading 1"
    /\ "style_properties" \in DOMAIN Elements(restyled)[1]

\* The indices of the headings of elements with this level and text.
MatchesOf(elements, level, text) ==
    { i \in DOMAIN elements :
        IsHeading(elements[i]) /\ elements[i].level = level /\ elements[i].text = text }

\* The field remediation patches in content of a format, and the value it
\* writes for a heading level.
PatchedField(format) == IF format = "docx" THEN "style" ELSE "command"

PatchValue(format, level) ==
    IF format = "docx" THEN "Heading " \o ToString(level)
    ELSE <<"\\">> \o SectioningName(level)

\* The issues are of the content's format, their (level, text) pairs are
\* pairwise distinct and each is the pair of a heading of elements.
DistinctPresentIssues(format, issue_list, elements) ==
    /\ issue_list # <<>>
    /\ \A k \in DOMAIN issue_list :
          /\ issue_list[k].type = IF format = "docx" THEN "missing_heading_style"
                                  ELSE "missing_heading_command"
          /\ MatchesOf(elements, issue_list[k].level, issue_list[k].text) # {}
    /\ \A j, k \in DOMAIN issue_list :
          j # k => <<issue_list[j].level, issue_list[j].text>>
                     # <<issue_list[k].level, issue_list[k].text>>

\* C7: remediation locality: for N issues of the content's format with
\* pairwise distinct (level, text) pairs, each present in the content,
\* adjust_structure returns content with the same number of elements in
\* which exactly N elements are patched, each the first heading matching one
\* of the issues and differing from the input element at most in its style
\* (docx) or command (tex) field, set to the default of the level, and every
\* other element equals the input element at its position.
RemediationLocality ==
    [][(/\ pc = "styled" /\ pc' = "adjusted"
        /\ template.type \in {"docx", "tex"}
        /\ DistinctPresentIssues(template.type, given', Elements(styled)))
       => LET before == Elements(styled)
              after == Elements(adjusted)'
              First(k) == CHOOSE i \in MatchesOf(before, given'[k].level, given'[k].text) :
                             \A j \in MatchesOf(before, given'[k].level, given'[k].text) : i <= j
              patched == { First(k) : k \in DOMAIN given' }
          IN /\ adjusted' # None
             /\ Len(after) = Len(before)
             /\ Cardinality(patched) = Len(given')
             /\ \A i \in DOMAIN before :
                   after[i] = IF i \in patched
                              THEN Put(before[i], PatchedField(template.type),
                                       PatchValue(template.type, before[i].level))
                              ELSE before[i]]_vars

\* A docx remediation of two issues, for the second and then the first
\* heading, that rewrote the style name the resolver had taken from the
\* template (its properties stay attached) and left the other as it was.
RemediationLocalityWitness ==
    /\ pc = "adjusted" /\ template.type = "docx"
    /\ given = <<Issue("missing_heading_style", 6, "A"), Issue("missing_heading_style", 1, "A")>>
    /\ Len(Elements(adjusted)) = 2
    /\ Elements(adjusted)[1] = [type |-> "heading", level |-> 1, text |-> "A",
                                style |-> "Heading 1",
                                style_properties |-> DocxStyleInfo("Heading 1 Alt")]
    /\ Elements(adjusted)[2] = [type |-> "heading", level |-> 6, text |-> "A",
                                style |-> "Heading 6",
                                style_properties |-> DocxStyleInfo("Heading 6")]

\* The template's style table is empty.
EmptyStyleTable == DOMAIN template.styles = {}

\* C9 as stated: after apply_styles with an empty style table, every
\* element of the result carries a style (docx) or a command (tex).
EveryElementCarriesStyleOrCommand ==
    (pc = "styled" /\ template.type \in {"docx", "tex"} /\ EmptyStyleTable) =>
        \A i \in DOMAIN Elements(styled) :
            PatchedField(template.type) \in DOMAIN Elements(styled)[i]

\* The canonical default style name of an element type in docx resolution.
CanonicalDocxDefault(element_type) ==
    CASE element_type = "heading" -> "Heading 1"
      [] element_type = "list_item" -> "List Paragraph"
      [] element_type = "code_block" -> "Code"
      [] element_type = "block_quote" -> "Quote"
      [] element_type = "table" -> "Table Normal"
      [] OTHER -> "Normal"

\* C9, amended: with an empty style table apply_styles completes for both
\* formats; in docx every element of the result is the mapped element with
\* its style set to the canonical default of its type (nothing else
\* attached); in tex every element of the result is the mapped element
\* unchanged, every heading carrying the default command of its level,
\* while elements that are not headings or images carry no command.
EmptyTableFallback ==
    [][/\ (pc = "mapped" /\ template.type \in {"docx", "tex"} /\ EmptyStyleTable)
            => ENABLED ApplyStyles
       /\ (/\ pc = "mapped" /\ pc' = "styled"
           /\ template.type \in {"docx", "tex"} /\ EmptyStyleTable)
          => LET before == Elements(mapped)
                 after == Elements(styled)'
             IN /\ Len(after) = Len(before)
                /\ \A i \in DOMAIN before :
                      IF template.type = "docx"
                      THEN after[i] = Put(before[i], "style",
                                          CanonicalDocxDefault(before[i].type))
                      ELSE /\ after[i] = before[i]
                           /\ IsHeading(after[i]) =>
                                 after[i].command = PatchValue("tex", after[i].level)]_vars

\* A docx resolution against an empty style table of a level-5 heading and
\* an image, which the mapper gives no style: both carry the canonical
\* default of their type.
EmptyTableFallbackWitness ==
    /\ pc = "styled" /\ template.type = "docx" /\ EmptyStyleTable
    /\ Len(Elements(styled)) = 2
    /\ Elements(styled)[1].type = "heading" /\ Elements(styled)[1].level = 5
    /\ Elements(styled)[1].style = "Heading 1"
    /\ Elements(styled)[2].type = "image" /\ Elements(styled)[2].style = "Normal"

\* process has attempted remediation and the adjustment failed.
RemediationFailed == \E i \in DOMAIN trace : trace[i] = "adjust_structure_failed"

LowerCasedExtension(file_path) == Lower(LStripDot(SplitExt(file_path)[2]))

\* C10: when the lower-cased extension of the template file is not docx or
\* tex, process can only raise the configuration error, and it does so
\* before any stage is entered: no markdown is read or parsed, no template
\* parsed, nothing mapped, styled, adjusted or rendered.  When it is docx or
\* tex, whatever the case of its letters, process does not raise the
\* configuration error.
UnsupportedFormatRejected ==
    IF LowerCasedExtension(template_file) \notin {FormatChars.docx, FormatChars.tex}
    THEN /\ pc \in {"process", "raised"}
         /\ pc = "raised" => outcome = Raised("ValueError")
         /\ trace = <<>>
         /\ document = None /\ template = None /\ mapped = None /\ styled = None
         /\ given = <<>> /\ adjusted = None /\ rendered = None
         /\ lists = << <<>> >> /\ objs = <<>>
    ELSE outcome # Raised("ValueError")

\* process called with the template file t.ODT has raised the configuration
\* error with no stage entered.
UnsupportedFormatRejectedWitness ==
    /\ template_file = <<"t", ".", "O", "D", "T">>
    /\ pc = "raised" /\ outcome = Raised("ValueError")
    /\ trace = <<>> /\ document = None /\ template = None

\* The position of a stage in the order of one pass; a failed remediation
\* is the remediation stage.
StageIndex(stage) ==
    CASE stage = "parse_markdown" -> 1
      [] stage = "parse_template" -> 2
      [] stage = "map" -> 3
      [] stage = "apply_styles" -> 4
      [] stage \in {"adjust_structure", "adjust_structure_failed"} -> 5
      [] stage = "generate" -> 6

\* The stages entered so far are an initial part of the pass, in order, each
\* once, with only remediation possibly left out.
InPassOrder ==
    /\ trace # <<>> => StageIndex(trace[1]) = 1
    /\ \A i \in DOMAIN trace :
          i < Len(trace) =>
              \/ StageIndex(trace[i + 1]) = StageIndex(trace[i]) + 1
              \/ StageIndex(trace[i]) = 4 /\ StageIndex(trace[i + 1]) = 6

\* A state of process as a single pass leaves it.
SinglePassState ==
    /\ InPassOrder
    /\ (outcome.kind = "returned") = (pc = "returned")
    /\ (outcome.kind = "raised") = (pc = "raised")
    /\ pc = "returned" =>
          /\ Len(SelectSeq(trace, LAMBDA st : st = "generate")) = 1
          /\ trace[Len(trace)] = "generate"
          /\ outcome = Returned(output_file)
    /\ pc \in {"returned", "raised"} => ~ENABLED NextProcess

\* C11: one process call is a single pass: the stages are entered in the
\* order parse markdown, parse template, map, apply styles, (remediate),
\* generate, each at most once; a run in which no stage raises enters
\* generate exactly once and returns the output path, which is the caller's
\* path or, when none was given, the markdown file name without its
\* extension followed by _output. and the lower-cased template extension;
\* once a stage has raised, process has ended with the error and no stage
\* follows.
SinglePass ==
    /\ []SinglePassState
    /\ [][(pc = "process" /\ pc' = "read") =>
             output_file' = IF output_file = NonePath
                            THEN SplitExt(markdown_file)[1]
                                   \o <<"_", "o", "u", "t", "p", "u", "t", ".">>
                                   \o LowerCasedExtension(template_file)
                            ELSE output_file]_vars

\* A run on m.md and t.DocX without an output path that remediated and
\* returned m_output.docx.
SinglePassWitness ==
    /\ pc = "returned"
    /\ markdown_file = <<"m", ".", "m", "d">>
    /\ template_file = <<"t", ".", "D", "o", "c", "X">>
    /\ trace = <<"parse_markdown", "parse_template", "map", "apply_styles",
                 "adjust_structure", "generate">>
    /\ outcome = Returned(<<"m", "_", "o", "u", "t", "p", "u", "t", ".", "d", "o", "c", "x">>)

\* C12: every Document a parse call has returned has, now and after any
\* later parse call, exactly the elements of the text given to that call.
DocumentsFixed ==
    \A k \in DOMAIN earlier : Elements(earlier[k].document) = earlier[k].text

\* Two parse calls on one parser, of a text with the heading (1, "A") and
\* then of a text with the heading (1, "B"): both Documents returned have
\* both headings.
DocumentsAccumulate ==
    /\ Len(earlier) = 2
    /\ earlier[1].parser = earlier[2].parser
    /\ earlier[1].text = <<Heading(1, "A")>> /\ earlier[2].text = <<Heading(1, "B")>>
    /\ Elements(earlier[1].document) = <<Heading(1, "A"), Heading(1, "B")>>
    /\ Elements(earlier[2].document) = <<Heading(1, "A"), Heading(1, "B")>>

\* The element records an invocation ends with when it runs alone, for a
\* markdown file holding text and a template file holding tpl: mapped,
\* styled, and patched for the issues of the mapping.
AloneElements(text, tpl) ==
    LET m == MapElements(text, tpl)
        st == [k \in DOMAIN m.elements |->
                  ApplyStyle(tpl.type, m.elements[k], Get(tpl, "styles", <<>>))]
    IN SimulateAiAdjustment(st, [k \in DOMAIN st |-> k], m.issues)

\* C13: when two process invocations run interleaved, on one TemplateMapper
\* or on two, an invocation that has finished has the Document, the issues,
\* the mapped content and the styled content it ends with when run alone.
NoInterference ==
    pc = "concurrent" =>
        \A i \in Invocations :
            runs[i].pc = "done" =>
                LET alone == AloneElements(runs[i].text, runs[i].tpl)
                IN /\ Elements(runs[i].document) = runs[i].text
                   /\ runs[i].issues = MapElements(runs[i].text, runs[i].tpl).issues
                   /\ Elements(runs[i].mapped) = alone
                   /\ Elements(runs[i].styled) = alone

\* Two invocations on one TemplateMapper, for a file with the heading
\* (1, "A") and a file with a paragraph: the second has finished with a
\* Document and a styled content that begin with the first's heading.
InvocationSeesOtherFile ==
    /\ pc = "concurrent"
    /\ runs[1].mapper = runs[2].mapper
    /\ runs[1].text = <<Heading(1, "A")>>
    /\ runs[2].text = <<[type |-> "paragraph", text |-> "A"]>>
    /\ runs[2].pc = "done"
    /\ Len(Elements(runs[2].document)) = 2
    /\ Len(Elements(runs[2].styled)) = 2
    /\ Elements(runs[2].styled)[1].type = "heading"

\* ContentMapper.has_structure_issues()
HasStructureIssues == Len(issues) > 0

\* C14: after any sequence of map calls on one ContentMapper, the issues
\* it reports are those of the most recent call alone: what a new
\* ContentMapper reports for that call's document and template, each issue
\* naming a heading of that document; none after a call that took the
\* generic path or mapped an empty document; and has_structure_issues()
\* says whether there are any.
IssuesArePerCall ==
    pc = "mapped" =>
        LET source == Elements(document)
            known == template.type \in {"docx", "tex"}
        IN /\ issues = IF known THEN MapElements(source, template).issues ELSE <<>>
           /\ \A k \in DOMAIN issues :
                 MatchesOf(source, issues[k].level, issues[k].text) # {}
           /\ Len(issues) <= Len(HeadingsOf(source))
           /\ (~known \/ source = <<>>) => issues = <<>>
           /\ HasStructureIssues = (issues # <<>>)

\* A second map call that took the generic path for a document with a
\* heading, after a first call that recorded an issue: no issue is reported.
IssuesArePerCallWitness ==
    /\ pc = "mapped" /\ calls = 2
    /\ earlier[1] # <<>> /\ earlier[2] = <<>>
    /\ template.type = "odt"
    /\ Elements(document) # <<>>
    /\ ~HasStructureIssues

\* C15: no step of the pipeline (map, apply_styles, adjust_structure)
\* changes the source Document, that is its elements list and every element
\* record, or the template structure, whatever the template's type.
PipelineReadsOnly ==
    [][Value(document)' = Value(document) /\ template' = template]_vars

\* After the generic mapping for a template of unknown type and
\* adjust_structure with an issue for the document's heading (1, "A"), the
\* Document's own heading record has a style.
DocumentPatched ==
    /\ pc = "adjusted" /\ template.type = "odt"
    /\ mapped.elements = document.elements
    /\ given = <<Issue("missing_heading_style", 1, "A")>>
    /\ Elements(document) = <<[type |-> "heading", level |-> 1, text |-> "A",
                               style |-> "Heading 1"]>>

\* C16: for a template whose type is neither docx nor tex, map completes
\* and returns the document's top-level fields with type mapped_content and
\* template_type generic, the elements being the document's elements, all
\* of them, in order and as they were; it records no issue; the document is
\* as before.
GenericFallback ==
    [][/\ (pc = "start" /\ template.type \notin {"docx", "tex"}) => ENABLED MapGeneric
       /\ (pc = "start" /\ pc' = "mapped" /\ template.type \notin {"docx", "tex"}) =>
             /\ Value(mapped)' = Put(Put(Value(document), "type", "mapped_content"),
                                     "template_type", "generic")
             /\ Value(document)' = Value(document)
             /\ issues' = <<>>]_vars

\* A generic mapping of a level-6 heading and a table row (which the docx
\* and tex mappings drop): both are in the result, without style or
\* command, and no issue is recorded.
GenericFallbackWitness ==
    /\ pc = "mapped" /\ template.type = "odt"
    /\ mapped.template_type = "generic"
    /\ Len(Elements(mapped)) = 2
    /\ Elements(mapped)[1] = Heading(6, "A")
    /\ Elements(mapped)[2].type = "table_row"
    /\ issues = <<>>

\* The lines of a text: its pieces between the \n, a final \n ending the
\* last line and not starting another.
TextLines(text) ==
    IF text = <<>> THEN <<>>
    ELSE IF text[Len(text)] = "\n" THEN Split(SubSeq(text, 1, Len(text) - 1), "\n")
    ELSE Split(text, "\n")

IsKeyValueLine(line) == FirstIndexOf(line, ":") # 0

KeyOfLine(line) == Strip(SubSeq(line, 1, FirstIndexOf(line, ":") - 1))

ValueOfLine(line) == Strip(SubSeq(line, FirstIndexOf(line, ":") + 1, Len(line)))

\* The mapping a sequence of key: value lines stands for, the last
\* occurrence of a key winning.
MappingOfLines(lines) ==
    [k \in { KeyOfLine(lines[i]) : i \in DOMAIN lines } |->
        LET at == { i \in DOMAIN lines : KeyOfLine(lines[i]) = k }
        IN ValueOfLine(lines[CHOOSE i \in at : \A j \in at : j <= i])]

SameMapping(a, b) == DOMAIN a = DOMAIN b /\ \A k \in DOMAIN a : a[k] = b[k]

\* The index of the line that closes the leading block, 0 when the text
\* has no leading block.
ClosingLine(lines) ==
    LET closing == { c \in 2..Len(lines) : lines[c] = Dashes }
    IN IF Len(lines) >= 2 /\ lines[1] = Dashes /\ closing # {}
       THEN CHOOSE c \in closing : \A d \in closing : c <= d
       ELSE 0

\* C17: what _extract_metadata has returned for a text that begins with a
\* '---' line, key: value lines and a closing '---' line is the mapping of
\* each key to its value, the last occurrence winning; for a text without
\* a leading block it is the empty mapping.
MetadataExtracted ==
    pc = "metadata" =>
        LET lines == TextLines(markdown_text)
            c == ClosingLine(lines)
        IN IF c = 0 THEN DOMAIN earlier[1] = {}
           ELSE (\A i \in 2..(c - 1) : IsKeyValueLine(lines[i]))
                    => SameMapping(earlier[1], MappingOfLines(SubSeq(lines, 2, c - 1)))

\* The text is the block '---', 'k:v', '---' whose closing line ends the
\* file, and no metadata has been extracted from it.
MetadataLost ==
    /\ pc = "metadata"
    /\ markdown_text = Dashes \o <<"\n", "k", ":", "v", "\n">> \o Dashes
    /\ DOMAIN earlier[1] = {}

\* The same block followed by a \n gives the mapping of k to v, and a
\* repeated key keeps its last value.
MetadataFound ==
    /\ pc = "metadata"
    /\ markdown_text = Dashes \o <<"\n", "k", ":", "v", "\n", "k", ":", " ", "w", "\n">>
                        \o Dashes \o <<"\n">>
    /\ SameMapping(earlier[1], [k \in {<<"k">>} |-> <<"w">>])

\* C18: main prints nothing before process ends; when it has returned, it
\* has returned 0 after printing the one line with the output path if
\* process returned, and 1 after printing the one error line with the
\* exception's message if process or building the TemplateMapper raised;
\* a process call that has ended, either way, always leads main to return.
CliOutcome ==
    /\ exit_status = <<>> => stdout = <<>>
    /\ exit_status # <<>> =>
          /\ pc = "exited"
          /\ \/ /\ outcome.kind = "returned"
                /\ exit_status = <<0>>
                /\ stdout = <<PrintedOutput(outcome.value)>>
             \/ /\ outcome.kind = "raised"
                /\ exit_status = <<1>>
                /\ stdout = <<PrintedError(outcome.error)>>
    /\ outcome.kind \in {"returned", "raised"} /\ exit_status = <<>> => ENABLED NextMain
    /\ pc = "exited" => exit_status # <<>>

\* main has returned 1 for an unsupported template format, having printed
\* the one error line.
CliOutcomeWitness ==
    /\ pc = "exited"
    /\ outcome = Raised("ValueError")
    /\ exit_status = <<1>>
    /\ stdout = <<PrintedError("ValueError")>>

IsLevelSix(e) == IsHeading(e) /\ e.level = 6

\* C19: in tex mapping every level-6 heading of the source is mapped, when
\* the template's style table has an entry for subparagraph, with that
\* entry's definition as its command and without an issue; and otherwise
\* with the command \subparagraph and one missing_heading_command issue
\* (level, text), in source order.
LevelSixAsLevelFive ==
    (pc = "mapped" /\ template.type = "tex") =>
        LET source == HeadingsOf(Elements(document))
            out == HeadingsOf(Elements(mapped))
            sixes == SelectSeq(source, IsLevelSix)
            AtLevelSix(issue) == issue.level = 6
        IN /\ Len(out) = Len(source)
           /\ IF <<"subparagraph">> \in DOMAIN template.styles
              THEN /\ \A k \in DOMAIN source :
                         IsLevelSix(source[k]) =>
                             out[k].command = template.styles[<<"subparagraph">>].definition
                   /\ SelectSeq(issues, AtLevelSix) = <<>>
              ELSE /\ \A k \in DOMAIN source :
                         IsLevelSix(source[k]) =>
                             out[k].command = <<"\\", "subparagraph">>
                   /\ SelectSeq(issues, AtLevelSix)
                         = IssuesFor("missing_heading_command", sixes)

\* A tex mapping of the single heading (6, "A") against a style table that
\* redefines subparagraph as \itshape: the command is \subparagraph and an
\* issue is recorded, while the heading (5, "A") gets \itshape and none.
LevelSixMissesOverride ==
    /\ pc = "mapped" /\ template.type = "tex"
    /\ <<"subparagraph">> \in DOMAIN template.styles
    /\ template.styles[<<"subparagraph">>].definition = <<"\\", "itshape">>
    /\ Elements(document) = <<Heading(6, "A")>>
    /\ Elements(mapped)[1].command = <<"\\", "subparagraph">>
    /\ issues = <<Issue("missing_heading_command", 6, "A")>>
    /\ GetTexHeadingCommand(5, template.styles) = <<"\\", "itshape">>

\* The source elements the docx mapping has a branch for.
IsDocxKind(e) ==
    Get(e, "type", "") \in {"heading", "paragraph", "list", "list_item", "code_block",
                            "block_quote", "table", "image"}

\* The style of the first paragraph element of the template's structure,
\* Normal when it has none.
FirstTemplateParagraphStyle ==
    LET at == { i \in DOMAIN template.structure :
                  template.structure[i].type = "paragraph" }
    IN IF at = {} THEN "Normal"
       ELSE template.structure[CHOOSE i \in at : \A j \in at : i <= j].style

\* After a docx mapping the mapped elements are the source elements of the
\* mapped kinds in order, a paragraph has the style paragraph_style, a list
\* or list item List Paragraph, a code block Code, a block quote Quote, a
\* table Table Normal, an image the caption style Caption, and every issue
\* is a missing_heading_style issue of a source heading.
DocxKindStyles(paragraph_style) ==
    (pc = "mapped" /\ template.type = "docx") =>
        LET source == SelectSeq(Elements(document), IsDocxKind)
            out == Elements(mapped)
        IN /\ Len(out) = Len(source)
           /\ \A k \in DOMAIN source :
                 CASE source[k].type = "paragraph" -> out[k].style = paragraph_style
                   [] source[k].type \in {"list", "list_item"} ->
                          out[k].style = "List Paragraph"
                   [] source[k].type = "code_block" -> out[k].style = "Code"
                   [] source[k].type = "block_quote" -> out[k].style = "Quote"
                   [] source[k].type = "table" -> out[k].style = "Table Normal"
                   [] source[k].type = "image" -> out[k].caption_style = "Caption"
                   [] OTHER -> TRUE
           /\ \A n \in DOMAIN issues :
                 /\ issues[n].type = "missing_heading_style"
                 /\ \E h \in Range(HeadingsOf(source)) :
                       h.level = issues[n].level /\ h.text = issues[n].text
           /\ Len(issues) <= Len(HeadingsOf(source))

\* C20 as stated: in docx mapping every non-heading element gets its fixed
\* style whatever the template contains, a paragraph Normal, and no issue
\* is recorded for a non-heading element.
FixedKindStyles == DocxKindStyles("Normal")

\* C20, amended: in docx mapping a paragraph gets the style of the
\* template's first paragraph element (Normal when the template has no
\* paragraph element), every other non-heading element gets its fixed
\* style whatever the template contains (List Paragraph, Code, Quote,
\* Table Normal, caption style Caption), and no issue is recorded for a
\* non-heading element.
KindStylesWithTemplateParagraph == DocxKindStyles(FirstTemplateParagraphStyle)

\* A paragraph and a block quote mapped against a template whose first
\* paragraph has the style Body Text.
KindStylesWitness ==
    /\ pc = "mapped" /\ template.type = "docx"
    /\ FirstTemplateParagraphStyle = "Body Text"
    /\ Elements(document) = << [type |-> "paragraph", text |-> "A"],
                               [type |-> "block_quote", text |-> "A"] >>
    /\ Elements(mapped)[1].style = "Body Text"
    /\ Elements(mapped)[2].style = "Quote"
    /\ issues = <<>>

IsParagraph(e) == Get(e, "type", "") = "paragraph"

\* C21: after a docx mapping the mapped paragraphs are the source
\* paragraphs in order, each with its text and with the default paragraph
\* style: the style of the first paragraph element of the template's
\* structure, Normal when the template has no paragraph element.
DefaultParagraphStyle ==
    (pc = "mapped" /\ template.type = "docx") =>
        LET source == SelectSeq(Elements(document), IsParagraph)
            out == SelectSeq(Elements(mapped), IsParagraph)
        IN /\ Len(out) = Len(source)
           /\ \A k \in DOMAIN source :
                 /\ out[k].text = source[k].text
                 /\ out[k].style = FirstTemplateParagraphStyle
           /\ (\A i \in DOMAIN template.structure : ~IsParagraph(template.structure[i]))
                 => \A k \in DOMAIN out : out[k].style = "Normal"

\* Two paragraphs mapped against a template whose paragraphs are styled
\* Body Text and then Normal: both get Body Text.
DefaultParagraphStyleWitness ==
    /\ pc = "mapped" /\ template.type = "docx"
    /\ \E i, j \in DOMAIN template.structure :
          /\ i < j
          /\ IsParagraph(template.structure[i]) /\ template.structure[i].style = "Body Text"
          /\ IsParagraph(template.structure[j]) /\ template.structure[j].style = "Normal"
    /\ Len(Elements(document)) = 2
    /\ \A k \in 1..2 : IsParagraph(Elements(document)[k])
    /\ \A k \in 1..2 : Elements(mapped)[k].style = "Body Text"

\* The style name docx resolution looks up for an element: its style, or
\* the canonical default of its type when it has none.
CurrentStyleName(e) == Get(e, "style", CanonicalDocxDefault(Get(e, "type", "")))

RECURSIVE AbsentStyles(_)
\* The elements whose style name is not a key of the template's style
\* table, in order, as the pairs (style name, canonical default).
AbsentStyles(elements) ==
    IF elements = <<>> THEN <<>>
    ELSE (IF CurrentStyleName(Head(elements)) \in DOMAIN template.styles THEN <<>>
          ELSE << <<CurrentStyleName(Head(elements)),
                    CanonicalDocxDefault(Get(Head(elements), "type", ""))>> >>)
         \o AbsentStyles(Tail(elements))

\* The elements after are the docx resolution of the elements before, and
\* logged are the warnings of that resolution.
DocxResolution(before, after, logged) ==
    /\ Len(after) = Len(before)
    /\ \A k \in DOMAIN before :
          LET name == CurrentStyleName(before[k])
          IN IF name \in DOMAIN template.styles
             THEN after[k] = Put(Put(before[k], "style", name),
                                 "style_properties", template.styles[name])
             ELSE after[k] = Put(before[k], "style",
                                 CanonicalDocxDefault(Get(before[k], "type", "")))
    /\ Len(logged) = Len(AbsentStyles(before))
    /\ \A n \in DOMAIN logged :
          /\ logged[n].warning = "style not found"
          /\ <<logged[n].style, logged[n].default>> = AbsentStyles(before)[n]

BareCommandName(command) ==
    IF command # <<>> /\ Head(command) = "\\" THEN Tail(command) ELSE command

\* The elements after are the tex resolution of the elements before.
TexResolution(before, after) ==
    /\ Len(after) = Len(before)
    /\ \A k \in DOMAIN before :
          LET e == before[k]
          IN IF IsHeading(e) /\ BareCommandName(e.command) \in DOMAIN template.styles
             THEN after[k] = Put(e, "command",
                                 template.styles[BareCommandName(e.command)].definition)
             ELSE IF Get(e, "type", "") = "environment"
                     /\ <<e.env_type>> \in DOMAIN template.styles
             THEN after[k] = Put(Put(e, "begin_def", template.styles[<<e.env_type>>].begin_def),
                                 "end_def", template.styles[<<e.env_type>>].end_def)
             ELSE after[k] = e

\* C23: tex style resolution gives a heading whose command's name is a key
\* of the template's style table that entry's definition as its command,
\* an environment element whose environment type is a key that entry's
\* begin and end delimiters, and returns every other element, and every
\* heading or environment without an entry, with all its fields as they
\* were.
TexStyleResolution ==
    [][(pc = "mapped" /\ pc' = "styled" /\ template.type = "tex") =>
          TexResolution(Elements(mapped), Elements(styled)')]_vars

\* A level-6 heading mapped with \subparagraph and a list item, resolved
\* against a table that redefines subparagraph as \itshape and itemize as
\* compactitem.
TexStyleResolutionWitness ==
    /\ pc = "styled" /\ template.type = "tex"
    /\ Len(Elements(styled)) = 2
    /\ Elements(document)[1] = Heading(6, "A")
    /\ Elements(styled)[1].command = <<"\\", "itshape">>
    /\ Elements(styled)[2].type = "environment"
    /\ Elements(styled)[2].env_type = "itemize"
    /\ Elements(styled)[2].begin_def = <<"\\", "begin", "{", "compactitem", "}">>
    /\ Elements(styled)[2].end_def = <<"\\", "end", "{", "compactitem", "}">>

\* The positions of the trace at which process called adjust_structure.
RemediationAttempts ==
    { k \in DOMAIN trace : trace[k] \in {"adjust_structure", "adjust_structure_failed"} }

\* C24: process calls adjust_structure at most once, only when the mapper
\* has recorded an issue and directly after apply_styles has returned, and
\* it has called it whenever there is an issue and rendering is reached;
\* the styled content becomes the call's result when that is not None and
\* stays otherwise; without an issue the content handed to the renderer is
\* what apply_styles returned; and adjust_structure called by anyone with
\* an empty issue list returns None and changes nothing.
RemediationWhenIssues ==
    /\ [](/\ Cardinality(RemediationAttempts) <= 1
          /\ \A k \in RemediationAttempts :
                /\ Len(issues) > 0
                /\ k > 1 /\ trace[k - 1] = "apply_styles"
                /\ resolved # None
          /\ (pc = "generate" \/ "generate" \in Range(trace)) =>
                (RemediationAttempts # {} <=> Len(issues) > 0)
          /\ (rendered # None /\ Len(issues) = 0) => rendered = resolved)
    /\ [][/\ (pc = "remediate" /\ pc' = "generate") =>
                IF Len(issues) = 0
                THEN styled' = styled /\ adjusted' = adjusted /\ UNCHANGED heap
                ELSE /\ adjusted' # None => styled' = adjusted'
                     /\ adjusted' = None => styled' = styled
          /\ (pc = "generate" /\ pc' \in {"returned", "raised"}) =>
                rendered' = Value(styled)
          /\ (pc = "styled" /\ pc' = "adjusted" /\ given' = <<>>) =>
                adjusted' = None /\ UNCHANGED <<heap, styled, mapped, issues>>]_vars

\* process has returned after a remediation whose result, a content dict
\* with an elements list of its own, became the styled content and was
\* rendered.
RemediationWhenIssuesWitness ==
    /\ pc = "returned"
    /\ Len(issues) > 0
    /\ trace[Len(trace) - 1] = "adjust_structure"
    /\ adjusted # None /\ styled = adjusted
    /\ styled.elements # mapped.elements
    /\ rendered = Value(styled)

\* Position i is the first heading of elements with the issue's level and
\* text.
IsFirstMatch(elements, i, issue) ==
    /\ i \in MatchesOf(elements, issue.level, issue.text)
    /\ \A j \in MatchesOf(elements, issue.level, issue.text) : i <= j

\* The element at position i after the issues have been handled: its style
\* is rewritten if it is the first match of an issue of the kind
\* missing_heading_style, its command if it is the first match of an issue
\* of the kind missing_heading_command, and nothing else changes.
PatchedByIssues(elements, i, issue_list) ==
    LET Hit(kind) == \E k \in DOMAIN issue_list :
                        issue_list[k].type = kind /\ IsFirstMatch(elements, i, issue_list[k])
        e == elements[i]
        s == IF Hit("missing_heading_style")
             THEN Put(e, "style", PatchValue("docx", e.level)) ELSE e
    IN IF Hit("missing_heading_command")
       THEN Put(s, "command", PatchValue("tex", e.level)) ELSE s

\* C25: adjust_structure with any issue list completes; with a non-empty
\* list it returns content of the same length in which the only elements
\* that differ from the input are first matches (heading, level, text) of
\* issues of the two known kinds, patched in the field of the issue's kind;
\* a later heading with the same level and text, an issue without a match
\* and an issue of another kind change nothing.
RemediationMatching ==
    [][/\ pc = "styled" => ENABLED AdjustWithAnyIssues
       /\ (pc = "styled" /\ pc' = "adjusted" /\ given' # <<>>) =>
             LET before == Elements(styled)
                 after == Elements(adjusted)'
             IN /\ adjusted' # None
                /\ Len(after) = Len(before)
                /\ \A i \in DOMAIN before : after[i] = PatchedByIssues(before, i, given')]_vars

\* Two equal level-1 headings, both styled Heading 1 Alt by the template:
\* an issue of another kind and a style issue for them have rewritten the
\* first only.
RemediationMatchingWitness ==
    /\ pc = "adjusted" /\ template.type = "docx"
    /\ given = <<Issue("other", 1, "A"), Issue("missing_heading_style", 1, "A")>>
    /\ Elements(document) = <<Heading(1, "A"), Heading(1, "A")>>
    /\ Elements(adjusted)[1].style = "Heading 1"
    /\ Elements(adjusted)[2].style = "Heading 1 Alt"

\* The type of the mapped element of a source element of a known kind.
MappedType(format, source_type) ==
    IF format = "docx"
    THEN (IF source_type = "list" THEN "list_item" ELSE source_type)
    ELSE CASE source_type \in {"heading", "paragraph"} -> source_type
           [] source_type = "image" -> "command"
           [] OTHER -> "environment"

\* The text a mapped element carries: its text, its single item, or its
\* content.
CarriedText(e) ==
    IF "text" \in DOMAIN e THEN e.text
    ELSE IF "items" \in DOMAIN e /\ Len(e.items) = 1 THEN e.items[1]
    ELSE Get(e, "content", "")

\* C26: a docx or tex mapping always completes; its elements are, in source
\* order, one per source element of a known kind, of the mapped type of
\* that kind, carrying the source element's text and, for a heading, its
\* level; source elements of another kind give no element and no issue
\* (every issue is that of a source heading); an empty document gives an
\* empty element list.
MappingPreservesStructure ==
    /\ (pc = "start" /\ template.type \in {"docx", "tex"}) => ENABLED MapKnown
    /\ (pc = "mapped" /\ template.type \in {"docx", "tex"}) =>
          LET source == SelectSeq(Elements(document), IsDocxKind)
              out == Elements(mapped)
          IN /\ Len(out) = Len(source)
             /\ \A k \in DOMAIN source :
                   /\ out[k].type = MappedType(template.type, source[k].type)
                   /\ CarriedText(out[k]) = Get(source[k], "text", "")
                   /\ IsHeading(source[k]) => out[k].level = source[k].level
             /\ \A n \in DOMAIN issues :
                   \E h \in Range(HeadingsOf(source)) :
                       h.level = issues[n].level /\ h.text = issues[n].text
             /\ Elements(document) = <<>> => out = <<>>

\* A tex mapping of a table row, which has no mapping, followed by a block
\* quote: one quote environment with the quote's text.
MappingPreservesStructureWitness ==
    /\ pc = "mapped" /\ template.type = "tex"
    /\ Len(Elements(document)) = 2
    /\ Elements(document)[1].type = "table_row"
    /\ Elements(document)[2].type = "block_quote"
    /\ Len(Elements(mapped)) = 1
    /\ Elements(mapped)[1].env_type = "quote"
    /\ Elements(mapped)[1].content = "A"
    /\ issues = <<>>

\* A list element of the source: a list container or a list item.
IsListElement(e) == e.type \in {"list", "list_item"}

\* The environment of a list kind.
ListEnvironment(e) ==
    IF Get(e, "list_type", "unordered") = "ordered" THEN "enumerate" ELSE "itemize"

\* The delimiter of an environment: the template's when its style table
\* has the environment, the plain one otherwise.
Delimiter(env, side) ==
    IF <<env>> \in DOMAIN template.styles
    THEN template.styles[<<env>>][side]
    ELSE IF side = "begin_def" THEN BeginEnv(env) ELSE EndEnv(env)

\* The lines of one source element of a list document.
LinesOf(e) ==
    IF IsListElement(e)
    THEN << Delimiter(ListEnvironment(e), "begin_def"),
            <<"\\", "item", " ", Get(e, "text", "")>>,
            Delimiter(ListEnvironment(e), "end_def") >>
    ELSE << <<e.text>>, <<>> >>

RECURSIVE LinesOfAll(_)
LinesOfAll(source) ==
    IF source = <<>> THEN <<>> ELSE LinesOf(Head(source)) \o LinesOfAll(Tail(source))

\* C27: the tex mapping turns each source list element into its own
\* environment holding exactly one item, the element's text, itemize for
\* an unordered list kind and enumerate for an ordered one, never grouped
\* with its neighbours; the generator writes such an environment as its
\* begin delimiter, one \item line with the text and its end delimiter, and
\* a paragraph as its text line (followed by the separating empty line).
ListElementsEachOwnEnvironment ==
    /\ pc \in {"mapped", "styled", "generated"} =>
          LET source == Elements(document)
              out == Elements(mapped)
          IN /\ Len(out) = Len(source)
             /\ \A k \in DOMAIN source :
                   IsListElement(source[k]) =>
                      /\ out[k].type = "environment"
                      /\ out[k].env_type = ListEnvironment(source[k])
                      /\ out[k].items = << Get(source[k], "text", "") >>
    /\ pc = "generated" =>
          /\ written.kind = "file"
          /\ written.content = LinesOfAll(Elements(document))

\* An ordered list item next to an unordered one, with a template that
\* redefines itemize: two environments of one item each have been written,
\* an enumerate and the template's itemize.
ListElementsEachOwnEnvironmentWitness ==
    /\ pc = "generated"
    /\ Len(Elements(document)) = 2
    /\ Elements(document)[1] = [type |-> "list_item", text |-> "B", list_type |-> "ordered"]
    /\ Elements(document)[2] = [type |-> "list_item", text |-> "A", list_type |-> "unordered"]
    /\ written.content =
          << BeginEnv("enumerate"), <<"\\", "item", " ", "B">>, EndEnv("enumerate"),
             <<"\\", "begin", "{", "compactitem", "}">>, <<"\\", "item", " ", "A">>,
             <<"\\", "end", "{", "compactitem", "}">> >>

RenderingState ==
    /\ pc = "returned" =>
          /\ disk.writable
          /\ outcome = Returned(output_file)
          /\ written.kind = "file"
          /\ written.from_template = disk.template
    /\ pc = "raised" => (outcome.kind = "raised" /\ written = NoFile)
    /\ (pc = "generate" /\ disk.writable) => ENABLED ProcessGenerate
    /\ (pc = "generate" /\ ~disk.writable) => (~ENABLED ProcessGenerate /\ ENABLED ProcessStageRaises)

RenderingStep ==
    (pc = "generate" /\ ~disk.writable /\ pc' # pc) => pc' = "raised"

RenderingUnwritableWitness ==
    /\ pc = "raised"
    /\ ~disk.writable
    /\ trace # <<>> /\ trace[Len(trace)] = "generate"
    /\ written = NoFile

\* The style names the resolver has replaced by another one because the
\* template's table does not have them.
ReplacedStyles ==
    { w.style : w \in { x \in Range(warnings) :
                          x.warning = "style not found" /\ x.style # x.default } }

\* The headings of the content handed to the generator.
HandedHeadings ==
    IF pc = "generate" THEN Range(HeadingsOf(Elements(styled)))
    ELSE IF rendered # None THEN Range(HeadingsOf(rendered.elements))
    ELSE {}

\* C29: in the docx pipeline every heading of the content handed to the
\* generator has a style name that is a key of the template's style table
\* or Heading 1, and none has a style name that the resolver had replaced
\* because the table does not have it.
HeadingStylesResolved ==
    template.type = "docx" =>
        \A e \in HandedHeadings :
            /\ e.style \in DOMAIN template.styles \cup {"Heading 1"}
            /\ e.style \notin ReplacedStyles

\* process has returned for a level-5 heading and a template whose body
\* has no heading of level 5: the mapper recorded the issue, the resolver
\* found Heading 5 in the table, the remediation wrote Heading 5, and that
\* went to the generator.
HeadingStylesResolvedWitness ==
    /\ pc = "returned" /\ template.type = "docx"
    /\ \E n \in DOMAIN issues :
          issues[n].type = "missing_heading_style" /\ issues[n].level = 5
    /\ trace[Len(trace) - 1] = "adjust_structure"
    /\ adjusted # None /\ styled = adjusted
    /\ rendered = Value(styled)
    /\ \E e \in HandedHeadings : e.level = 5 /\ e.style = "Heading 5"
    /\ "Heading 5" \in DOMAIN template.styles

\* The template's style table has a definition, not the empty one, for the
\* sectioning command of the level.
DefinitionOverridden(level) ==
    /\ SectioningName(level) \in DOMAIN template.styles
    /\ "definition" \in DOMAIN template.styles[SectioningName(level)]
    /\ template.styles[SectioningName(level)].definition # <<>>

\* C30: in the tex pipeline every heading of the content handed to the
\* generator whose sectioning command has an override definition in the
\* template's style table, level-6 headings included, carries that
\* definition as its command.
OverridesKept ==
    template.type = "tex" =>
        \A e \in HandedHeadings :
            DefinitionOverridden(e.level) =>
                e.command = template.styles[SectioningName(e.level)].definition

\* process has returned for a level-6 heading and a template that redefines
\* subparagraph as \itshape: the remediation ran, and the heading went to
\* the generator with the command \subparagraph.
OverrideDiscarded ==
    /\ pc = "returned" /\ template.type = "tex"
    /\ template.styles[<<"subparagraph">>].definition = <<"\\", "itshape">>
    /\ trace[Len(trace) - 1] = "adjust_structure"
    /\ adjusted # None /\ styled = adjusted
    /\ rendered = Value(styled)
    /\ \E e \in HandedHeadings : e.level = 6 /\ e.command = <<"\\", "subparagraph">>

=============================================================================
